---- MODULE Spec2Model ----
(***************************************************************************)
(* A model of otto's execution core: the retry controller and process      *)
(* executor of src/src/runner.rs and the orchestrator of                   *)
(* src/src/cli/mod.rs (run_named_task, execute_task_group, execute_run).   *)
(*                                                                         *)
(* Every OS thread of the program is an entry of `threads`.  A thread owns *)
(* a sequence of frames, one per activation of run_named_task (or one for  *)
(* a direct call of runner::execute, as the crate's tests make), and the   *)
(* Vec<String> call stack that run_named_task receives by &mut.            *)
(*                                                                         *)
(* Time stamps and measured durations (started_at, duration) and record    *)
(* ids are not modelled: no modelled decision reads them.                  *)
(***************************************************************************)
EXTENDS Integers, Sequences, FiniteSets, TLC

VARIABLES
    cfg,       \* the loaded Config: task name -> Task (immutable during a run)
    threads,   \* sequence of OS threads; thread 1 is the main thread
    history,   \* the lines of .otto/history.jsonl, oldest first
    notified,  \* the notification events handed to notify::Manager::notify
    spawned,   \* number of child processes created so far
    env        \* the process environment and the variables of the dotenv file

vars == <<cfg, threads, history, notified, spawned, env>>

----------------------------------------------------------------------------
(* Bounds of the model *)

\* longest time (in ticks) a child process is observed running
MaxChildTime == 2
\* most OS threads alive in one run (the main thread and the units of parallel groups)
MaxThreads == 5

ThreadIds == 1..MaxThreads

(* Program constants *)

MaxRetries == 10
ExitConfigOrSpawn == 127
ExitTimeout == 124
ExitNoCode == 1
BackoffCeilingMs == 60000
DefaultBackoffMs == 1000
TailLines == 10
TailChars == 1400
ExitRuntime == 1
ExitUsage == 2
ExitInternal == 3

----------------------------------------------------------------------------
(* Option<T> *)

None == [some |-> FALSE, val |-> <<>>]
Some(v) == [some |-> TRUE, val |-> v]

(* std::time::Duration: u64 seconds plus nanoseconds.  A value is held as  *)
(* hi * 2^63 seconds + ms milliseconds with hi in {0, 1} and ms < 2^21, so *)
(* that the overflow of the u64 seconds is exact for the values drawn.     *)

Dur(ms) == [hi |-> 0, ms |-> ms]
HugeDuration == [hi |-> 1, ms |-> 0]
DurationIsZero(d) == d.hi = 0 /\ d.ms = 0
DurationLeq(a, b) == a.hi < b.hi \/ (a.hi = b.hi /\ a.ms <= b.ms)

\* Duration::checked_mul(rhs: u32): None when the seconds overflow u64
CheckedMul(d, m) ==
    IF d.hi * m > 1 THEN None ELSE Some([hi |-> d.hi * m, ms |-> d.ms * m])

RECURSIVE Pow2(_)
Pow2(n) == IF n <= 0 THEN 1 ELSE 2 * Pow2(n - 1)

----------------------------------------------------------------------------
(* runner::tail on strings held as sequences of one-character strings *)

NL == "\n"
CR == "\r"

RECURSIVE TrimEndNewlines(_)
TrimEndNewlines(s) ==
    IF s = <<>> THEN s
    ELSE IF s[Len(s)] = NL THEN TrimEndNewlines(SubSeq(s, 1, Len(s) - 1))
    ELSE s

\* str::lines strips the "\n" of a line and then one "\r" before it
StripCR(line) ==
    IF line # <<>> /\ line[Len(line)] = CR
    THEN SubSeq(line, 1, Len(line) - 1) ELSE line

RECURSIVE LinesFrom(_, _, _)
LinesFrom(s, i, cur) ==
    IF i > Len(s) THEN (IF cur = <<>> THEN <<>> ELSE <<cur>>)
    ELSE IF s[i] = NL THEN <<StripCR(cur)>> \o LinesFrom(s, i + 1, <<>>)
    ELSE LinesFrom(s, i + 1, Append(cur, s[i]))

Lines(s) == LinesFrom(s, 1, <<>>)

RECURSIVE JoinWith(_, _)
JoinWith(parts, sep) ==
    IF parts = <<>> THEN <<>>
    ELSE IF Len(parts) = 1 THEN parts[1]
    ELSE parts[1] \o sep \o JoinWith(Tail(parts), sep)

LastN(s, n) == IF Len(s) > n THEN SubSeq(s, Len(s) - n + 1, Len(s)) ELSE s

tail(input, line_limit, char_limit) ==
    IF input = <<>> THEN None
    ELSE LET trimmed == TrimEndNewlines(input) IN
         IF trimmed = <<>> THEN None
         ELSE LET lines == LastN(Lines(trimmed), line_limit)
                  out == JoinWith(lines, <<NL>>)
              IN Some(LastN(out, char_limit))

----------------------------------------------------------------------------
(* Values of the runner *)

\* ExitStatus of a child ended by a signal: status.code() is None
Signalled == -1

\* what a child can end with by itself, and what it can have written to stderr
ExitStatuses == {0, 7, Signalled}
StderrTexts == {<<>>, <<"e", NL>>, <<"w">>}

Whitespace == {" ", "\t", NL, CR}
\* str::trim().is_empty()
IsBlank(s) == \A i \in 1..Len(s) : s[i] \in Whitespace

RunResult(code, status, stderr_tail) ==
    [exit_code |-> code, status |-> status, stderr_tail |-> stderr_tail]

\* runner::failed_result
failed_result(exit_code, stderr_tail) == RunResult(exit_code, "failed", stderr_tail)

\* Err(RunFailure { result, message }) and Ok(RunResult)
RunFailure(result, message) == [ok |-> FALSE, result |-> result, message |-> message]
RunOk(result) == [ok |-> TRUE, result |-> result, message |-> <<>>]

ValidateRequestNoTrim(req) ==
    IF req.retries < 0 THEN <<"retries must be >= 0">>
    ELSE IF req.use_shell /\ req.shell = <<>> THEN <<"shell command is required">>
    ELSE IF ~req.use_shell /\ req.exec = <<>> THEN <<"exec command is required">>
    ELSE <<>>

\* the three early returns of execute; <<>> when the request passes
ValidateRequest(req) ==
    IF req.retries < 0 THEN <<"retries must be >= 0">>
    ELSE IF req.use_shell /\ IsBlank(req.shell) THEN <<"shell command is required">>
    ELSE IF ~req.use_shell /\ req.exec = <<>> THEN <<"exec command is required">>
    ELSE <<>>

\* let retry_backoff = if req.retry_backoff.is_zero() { 1 s } else { .. }
NormalBackoff(req) ==
    IF DurationIsZero(req.retry_backoff) THEN Dur(DefaultBackoffMs) ELSE req.retry_backoff

AttemptsOneMore(req) == req.retries + 2

\* let attempts = req.retries + 1
Attempts(req) == req.retries + 1

SleepsAfterOffByOne(attempt, attempts) == attempt < attempts - 2

\* a loop that sleeps after every failed attempt, the last one included
SleepsAfterEveryFailure(attempt, attempts) == attempt < attempts

\* if attempt < attempts - 1
SleepsAfter(attempt, attempts) == attempt < attempts - 1

\* retry_backoff.checked_mul(1_u32 << attempt).unwrap_or(Duration::from_secs(60))
BackoffWait(backoff, attempt) ==
    LET m == CheckedMul(backoff, Pow2(attempt))
    IN IF m.some THEN m.val ELSE Dur(BackoffCeilingMs)

StatusCodeAlwaysOne(status) == ExitNoCode

\* status.code().unwrap_or(1)
StatusCode(status) == IF status = Signalled THEN ExitNoCode ELSE status

\* runner::format_duration, for whole milliseconds ("{ms}ms", "{s}s", "{:.3}s")
format_duration(d) ==
    IF d.hi = 1 THEN "9223372036854775808s"
    ELSE IF d.ms < 1000 THEN ToString(d.ms) \o "ms"
    ELSE IF d.ms % 1000 = 0 THEN ToString(d.ms \div 1000) \o "s"
    ELSE ToString(d.ms \div 1000) \o "." \o
         (IF d.ms % 1000 < 10 THEN "00" ELSE IF d.ms % 1000 < 100 THEN "0" ELSE "") \o
         ToString(d.ms % 1000) \o "s"

RunOnceOutcomeStatusFirst(status, timeout_hit, stderr_text, timeout) ==
    LET stderr_tail == tail(stderr_text, TailLines, TailChars) IN
    IF status = 0
    THEN [code |-> 0, stderr_tail |-> stderr_tail, err |-> None]
    ELSE IF timeout_hit
    THEN [code |-> ExitTimeout, stderr_tail |-> stderr_tail,
          err |-> Some(<<"command timed out after", format_duration(timeout)>>)]
    ELSE [code |-> StatusCode(status), stderr_tail |-> stderr_tail,
          err |-> Some(<<"command failed with exit code", ToString(StatusCode(status))>>)]

\* the tail of run_once: what (status, timeout_hit) and the captured stderr become
RunOnceOutcome(status, timeout_hit, stderr_text, timeout) ==
    LET stderr_tail == tail(stderr_text, TailLines, TailChars) IN
    IF timeout_hit
    THEN [code |-> ExitTimeout, stderr_tail |-> stderr_tail,
          err |-> Some(<<"command timed out after", format_duration(timeout)>>)]
    ELSE IF status = 0
    THEN [code |-> 0, stderr_tail |-> stderr_tail, err |-> None]
    ELSE [code |-> StatusCode(status), stderr_tail |-> stderr_tail,
          err |-> Some(<<"command failed with exit code", ToString(StatusCode(status))>>)]

\* a failed attempt that leaves last_exit at its initial 0
LastOfFailedExitKeepsZero(out) ==
    [exit |-> 0, stderr |-> out.stderr_tail, error |-> out.err.val]

\* match arm Ok((code, stderr_tail, Some(err))): the new last_exit/last_stderr/last_error
LastOfFailedExit(out) ==
    [exit |-> out.code, stderr |-> out.stderr_tail, error |-> out.err.val]

LastOfProcessErrorKeepsStderr(last, err) ==
    [exit |-> ExitConfigOrSpawn, stderr |-> last.stderr, error |-> err]

\* match arm Err(err): a process error of run_once
LastOfProcessError(last, err) ==
    [exit |-> ExitConfigOrSpawn, stderr |-> None, error |-> err]

\* match arm Ok((code, stderr_tail, None)): return Ok(RunResult { .. })
SuccessOf(out) == RunOk(RunResult(out.code, "success", out.stderr_tail))

\* the Err(RunFailure { .. }) after the loop
FailureOf(last) ==
    RunFailure(RunResult(last.exit, "failed", last.stderr), last.error)

WaitTimedOutNoSentinel(timeout, elapsed) == DurationLeq(timeout, Dur(elapsed * 1000))

\* wait_child: timeout.is_zero() waits without a limit; otherwise
\* child.wait_timeout(timeout) gives None once the child has run for timeout
\* (elapsed counts ticks of one second)
WaitTimedOut(timeout, elapsed) ==
    ~DurationIsZero(timeout) /\ DurationLeq(timeout, Dur(elapsed * 1000))

----------------------------------------------------------------------------
(* Threads and frames *)

\* a HashMap<String, String> without entries
EmptyMap == <<>>

\* the environment of a run: the process environment and the dotenv variables
NoEnv == [process |-> EmptyMap, dotenv |-> EmptyMap]

NoChild == [st |-> "none", status |-> 0, elapsed |-> 0,
            kill_called |-> FALSE, waited |-> FALSE]
NoObs == [kind |-> "none", status |-> 0, text |-> <<>>]

\* a frame is one call of run_named_task with what it calls in turn; `called`
\* (ghost) lists the sub-tasks a group has invoked or launched so far.
\* the locals of execute, and (ghost) what was done and seen so far:
\* made = calls of run_once, failed = attempts that ended in a failure,
\* sleeps = the backoff sleeps in order,
\* obs = what the most recent attempt's process did
ExInit ==
    [attempt |-> 0, attempts |-> 0, backoff |-> Dur(0),
     last |-> [exit |-> 0, stderr |-> None, error |-> <<>>],
     child |-> NoChild, timeout_hit |-> FALSE,
     made |-> 0, failed |-> 0, sleeps |-> <<>>, obs |-> NoObs]

NoRet == [ok |-> TRUE, code |-> 0, msg |-> <<>>]
NoExres == RunOk(RunResult(0, "success", None))

\* config::NotificationSettings of a run without a notifications section (and of
\* an inline run without a config file): desktop on, no webhook
DefaultNotifications == [desktop_enabled |-> TRUE, webhook_url |-> ""]

Frame(name, pc, direct, json, emit, rt) ==
    [name |-> name, pc |-> pc, direct |-> direct, json |-> json, emit |-> emit,
     rt |-> rt, ex |-> ExInit, idx |-> 1, handles |-> <<>>, failures |-> <<>>,
     exres |-> NoExres, appended |-> FALSE, called |-> <<>>,
     notifications |-> DefaultNotifications]

\* unit: the thread is a unit of a parallel group, running sub-task child_name
Thread(frames, stack, unit, child_name) ==
    [frames |-> frames, stack |-> stack, unit |-> unit, child_name |-> child_name,
     state |-> "running", result |-> NoRet]

Fr(t) == threads[t].frames[Len(threads[t].frames)]

At(t, pc) ==
    /\ t \in DOMAIN threads
    /\ threads[t].state = "running"
    /\ threads[t].frames # <<>>
    /\ Fr(t).pc = pc

WithTop(t, f) == [threads EXCEPT ![t].frames[Len(threads[t].frames)] = f]

ExecuteReturnsNoRecordOnFailure(t, f, res) ==
    LET g == [f EXCEPT !.ex.last = ExInit.last, !.ex.attempt = 0] IN
    IF f.direct
    THEN [threads EXCEPT ![t] = [@ EXCEPT !.state = "done", !.result = res,
                                         !.frames = <<[g EXCEPT !.pc = "returned"]>>]]
    ELSE WithTop(t, [g EXCEPT !.exres = res,
                              !.pc = IF res.ok THEN "execute_run_append"
                                     ELSE "execute_run_finish"])

\* execute returns res to its caller and its locals are dropped (the ghost counts
\* stay): a direct caller gets res as the thread's result, execute_run goes on to
\* build the record
ExecuteReturns(t, f, res) ==
    LET g == [f EXCEPT !.ex.last = ExInit.last, !.ex.attempt = 0] IN
    IF f.direct
    THEN [threads EXCEPT ![t] = [@ EXCEPT !.state = "done", !.result = res,
                                         !.frames = <<[g EXCEPT !.pc = "returned"]>>]]
    ELSE WithTop(t, [g EXCEPT !.exres = res, !.pc = "execute_run_append"])

----------------------------------------------------------------------------
(* runner::execute, run_once and wait_child, one step per action *)

\* execute up to the loop: the three validations, the backoff normalisation
ExecuteEnter(t) ==
    /\ At(t, "execute")
    /\ LET f == Fr(t)
           bad == ValidateRequest(f.rt)
       IN threads' =
            IF bad # <<>>
            THEN ExecuteReturns(t, f, RunFailure(failed_result(ExitConfigOrSpawn, None), bad))
            ELSE WithTop(t, [f EXCEPT !.pc = "run_once",
                                      !.ex.attempts = Attempts(f.rt),
                                      !.ex.backoff = NormalBackoff(f.rt)])
    /\ UNCHANGED <<env, cfg, history, notified, spawned>>

\* run_once: command.spawn() fails; execute takes the Err arm
SpawnFails(t) ==
    /\ At(t, "run_once")
    /\ LET f == Fr(t) IN
       threads' = WithTop(t, [f EXCEPT
            !.pc = "attempt_failed",
            !.ex.made = @ + 1,
            !.ex.failed = @ + 1,
            !.ex.child = NoChild,
            !.ex.obs = [kind |-> "spawn_err", status |-> 0, text |-> <<>>],
            !.ex.last = LastOfProcessError(f.ex.last, <<"run command:", "os error">>)])
    /\ UNCHANGED <<env, cfg, history, notified, spawned>>

\* run_once: command.spawn() succeeds, the stderr reader starts, wait_child begins
SpawnChild(t) ==
    /\ At(t, "run_once")
    /\ LET f == Fr(t) IN
       threads' = WithTop(t, [f EXCEPT
            !.pc = "wait_child",
            !.ex.made = @ + 1,
            !.ex.timeout_hit = FALSE,
            !.ex.obs = NoObs,
            !.ex.child = [NoChild EXCEPT !.st = "running"]])
    /\ spawned' = spawned + 1
    /\ UNCHANGED <<env, cfg, history, notified>>

\* time passes while wait_child blocks and the child runs
ChildRuns(t) ==
    /\ At(t, "wait_child")
    /\ LET f == Fr(t) IN
       /\ f.ex.child.elapsed < MaxChildTime
       /\ ~WaitTimedOut(f.rt.timeout, f.ex.child.elapsed)
       /\ threads' = WithTop(t, [f EXCEPT !.ex.child.elapsed = @ + 1])
    /\ UNCHANGED <<env, cfg, history, notified, spawned>>

\* the child exits by itself and the wait returns its status (timeout_hit false);
\* run_once joins the stderr reader and reports; execute returns on success
ChildExits(t) ==
    /\ At(t, "wait_child")
    /\ \E status \in ExitStatuses, text \in StderrTexts :
         LET f == Fr(t)
             out == RunOnceOutcome(status, FALSE, text, f.rt.timeout)
             g == [f EXCEPT !.ex.child = [NoChild EXCEPT !.st = "reaped", !.status = status,
                                                         !.waited = TRUE],
                            !.ex.obs = [kind |-> "exit", status |-> status, text |-> text]]
         IN threads' =
              IF out.err.some
              THEN WithTop(t, [g EXCEPT !.pc = "attempt_failed",
                                        !.ex.failed = @ + 1,
                                        !.ex.last = LastOfFailedExit(out)])
              ELSE ExecuteReturns(t, g, SuccessOf(out))
    /\ UNCHANGED <<env, cfg, history, notified, spawned>>

\* wait_timeout(timeout) returns None: the child is still running at the deadline
TimeoutExpires(t) ==
    /\ At(t, "wait_child")
    /\ LET f == Fr(t) IN
       /\ WaitTimedOut(f.rt.timeout, f.ex.child.elapsed)
       /\ threads' = WithTop(t, [f EXCEPT !.pc = "kill_child"])
    /\ UNCHANGED <<env, cfg, history, notified, spawned>>

\* the child ends by itself after the deadline and before the kill is sent
ChildExitsLate(t) ==
    /\ At(t, "kill_child")
    /\ Fr(t).ex.child.st = "running"
    /\ \E status \in ExitStatuses :
         threads' = WithTop(t, [Fr(t) EXCEPT !.ex.child.st = "exited",
                                             !.ex.child.status = status])
    /\ UNCHANGED <<env, cfg, history, notified, spawned>>

\* let _ = child.kill(): a running child is ended by the signal, an exited one is left
KillChild(t) ==
    /\ At(t, "kill_child")
    /\ LET f == Fr(t) IN
       threads' = WithTop(t, [f EXCEPT
            !.pc = "wait_killed",
            !.ex.child.kill_called = TRUE,
            !.ex.child.st = "exited",
            !.ex.child.status = IF f.ex.child.st = "running" THEN Signalled ELSE @])
    /\ UNCHANGED <<env, cfg, history, notified, spawned>>

\* child.wait() after the kill returns (status, true); run_once reports the timeout
WaitKilled(t) ==
    /\ At(t, "wait_killed")
    /\ \E text \in StderrTexts :
         LET f == Fr(t)
             out == RunOnceOutcome(f.ex.child.status, TRUE, text, f.rt.timeout)
         IN threads' = WithTop(t, [f EXCEPT
                !.pc = "attempt_failed",
                !.ex.failed = @ + 1,
                !.ex.child = [@ EXCEPT !.st = "reaped", !.waited = TRUE, !.elapsed = 0],
                !.ex.timeout_hit = TRUE,
                !.ex.obs = [kind |-> "timeout", status |-> f.ex.child.status, text |-> text],
                !.ex.last = LastOfFailedExit(out)])
    /\ UNCHANGED <<env, cfg, history, notified, spawned>>

\* child.wait() or child.wait_timeout() itself fails ("wait command: .."): run_once
\* returns Err and execute takes the Err arm.  Only SpecRunnerFaults has this step.
WaitFails(t) ==
    /\ \/ At(t, "wait_child")
       \/ At(t, "wait_killed")
    /\ LET f == Fr(t) IN
       threads' = WithTop(t, [f EXCEPT
            !.pc = "attempt_failed",
            !.ex.failed = @ + 1,
            !.ex.child.elapsed = 0,
            !.ex.obs = [kind |-> "wait_err", status |-> 0, text |-> <<>>],
            !.ex.last = LastOfProcessError(f.ex.last, <<"wait command:", "os error">>)])
    /\ UNCHANGED <<env, cfg, history, notified, spawned>>

\* a failed attempt that is not the last: thread::sleep(wait), then the next attempt
BackoffSleep(t) ==
    /\ At(t, "attempt_failed")
    /\ LET f == Fr(t) IN
       /\ SleepsAfter(f.ex.attempt, f.ex.attempts)
       /\ threads' = WithTop(t, [f EXCEPT
            !.pc = "run_once",
            !.ex.child = NoChild,
            !.ex.obs = NoObs,
            !.ex.sleeps = Append(@, BackoffWait(f.ex.backoff, f.ex.attempt)),
            !.ex.attempt = @ + 1])
    /\ UNCHANGED <<env, cfg, history, notified, spawned>>

\* the last attempt failed: the loop ends and execute returns the RunFailure
ExecuteFails(t) ==
    /\ At(t, "attempt_failed")
    /\ LET f == Fr(t) IN
       /\ ~SleepsAfter(f.ex.attempt, f.ex.attempts)
       /\ threads' = ExecuteReturns(t, f, FailureOf(f.ex.last))
    /\ UNCHANGED <<env, cfg, history, notified, spawned>>

----------------------------------------------------------------------------
(* SpecRunner: runner::execute called directly with a Request, as by the   *)
(* crate's tests and any user of the library                               *)

RetriesChoices == (-1)..MaxRetries
TimeoutChoices == {Dur(0), Dur(1000)}
BackoffChoices == {Dur(0), Dur(1000), HugeDuration}
CommandChoices ==
    { [use_shell |-> TRUE, shell |-> <<>>, exec |-> <<<<"p">>>>],
      [use_shell |-> TRUE, shell |-> <<" ", NL>>, exec |-> <<>>],
      [use_shell |-> TRUE, shell |-> <<"x">>, exec |-> <<>>],
      [use_shell |-> FALSE, shell |-> <<"x">>, exec |-> <<>>],
      [use_shell |-> FALSE, shell |-> <<>>, exec |-> <<<<"p">>>>] }

\* a runner::Request, held with the fields of the ResolvedTask it is copied from
Request(name, cmd, timeout, retries, retry_backoff) ==
    [name |-> name, source |-> "inline", command_preview |-> <<>>,
     sub_tasks |-> <<>>, parallel |-> FALSE,
     use_shell |-> cmd.use_shell, exec |-> cmd.exec, shell |-> cmd.shell,
     dir |-> <<>>, env |-> <<>>,
     timeout |-> timeout, retries |-> retries, retry_backoff |-> retry_backoff,
     notify_on |-> "failure"]

Requests ==
    { Request("inline", c, to, r, b) :
        c \in CommandChoices, to \in TimeoutChoices,
        r \in RetriesChoices, b \in BackoffChoices }

InitRunner ==
    /\ cfg = <<>>
    /\ \E req \in Requests :
         threads = <<Thread(<<Frame(req.name, "execute", TRUE, FALSE, FALSE, req)>>,
                            <<>>, FALSE, "")>>
    /\ history = <<>>
    /\ notified = <<>>
    /\ spawned = 0
    /\ env = NoEnv

NextRunner ==
    \/ \E t \in ThreadIds : ExecuteEnter(t)
    \/ \E t \in ThreadIds : SpawnFails(t)
    \/ \E t \in ThreadIds : SpawnChild(t)
    \/ \E t \in ThreadIds : ChildRuns(t)
    \/ \E t \in ThreadIds : ChildExits(t)
    \/ \E t \in ThreadIds : TimeoutExpires(t)
    \/ \E t \in ThreadIds : ChildExitsLate(t)
    \/ \E t \in ThreadIds : KillChild(t)
    \/ \E t \in ThreadIds : WaitKilled(t)
    \/ \E t \in ThreadIds : BackoffSleep(t)
    \/ \E t \in ThreadIds : ExecuteFails(t)

\* The program waits for children it spawned itself and has not reaped, so the
\* wait calls return a status.
SpecRunner == InitRunner /\ [][NextRunner]_vars

\* The same, in an environment where the wait system call can fail.
NextRunnerFaults ==
    \/ NextRunner
    \/ \E t \in ThreadIds : WaitFails(t)

SpecRunnerFaults == InitRunner /\ [][NextRunnerFaults]_vars

----------------------------------------------------------------------------
(* Properties of runner::execute, stated on the direct call of SpecRunner *)

T1 == threads[1]
F1 == T1.frames[1]
Req1 == F1.rt
Done1 == T1.state = "done"

\* the request has retries in [0,10] and a non-empty command in its mode
ValidReq1 ==
    /\ Req1.retries \in 0..MaxRetries
    /\ IF Req1.use_shell
       THEN \E i \in 1..Len(Req1.shell) : Req1.shell[i] \notin Whitespace
       ELSE Req1.exec # <<>>

SuccessObs(obs) == obs.kind = "exit" /\ obs.status = 0

\* C1: with retries r in [0,10] and a non-empty command the attempts are made one
\* at a time, never more than r+1 of them; a run that returns Ok made k attempts of
\* which the first k-1 failed and the k-th succeeded, and is Success with exit code
\* 0; a run that returns Err made exactly r+1 attempts, all failed, and is Failed;
\* no attempt follows a successful one.
C1_AttemptsStopAtFirstSuccess ==
    ValidReq1 =>
        /\ F1.ex.made <= Req1.retries + 1
        /\ F1.ex.failed <= F1.ex.made
        /\ F1.ex.made - F1.ex.failed <= 1
        /\ SuccessObs(F1.ex.obs) => Done1 /\ T1.result.ok
        /\ (Done1 /\ T1.result.ok) =>
              /\ SuccessObs(F1.ex.obs)
              /\ F1.ex.made = F1.ex.failed + 1
              /\ T1.result.result.status = "success"
              /\ T1.result.result.exit_code = 0
        /\ (Done1 /\ ~T1.result.ok) =>
              /\ F1.ex.made = Req1.retries + 1
              /\ F1.ex.failed = Req1.retries + 1
              /\ T1.result.result.status = "failed"

\* a run with retries = 3 whose first two attempts failed and whose third succeeded
C1_Witness ==
    /\ ValidReq1 /\ Req1.retries = 3
    /\ Done1 /\ T1.result.ok
    /\ F1.ex.made = 3 /\ F1.ex.failed = 2

\* the sleep the specification describes after failed attempt i (0-based)
CappedBackoff(backoff, i) ==
    IF backoff.hi = 1 \/ backoff.ms * Pow2(i) > BackoffCeilingMs
    THEN Dur(BackoffCeilingMs)
    ELSE Dur(backoff.ms * Pow2(i))

\* C2: every backoff sleep of a run with retries in [0,10] lasts
\* min(backoff * 2^i, 60 s) after failed attempt i (0-based), backoff being
\* retry_backoff with zero taken as 1 s; in particular no sleep is longer than 60 s.
C2_SleepIsCappedBackoff ==
    ValidReq1 =>
        \A k \in 1..Len(F1.ex.sleeps) :
            /\ F1.ex.sleeps[k] =
                 CappedBackoff(IF DurationIsZero(Req1.retry_backoff)
                               THEN Dur(DefaultBackoffMs) ELSE Req1.retry_backoff, k - 1)
            /\ DurationLeq(F1.ex.sleeps[k], Dur(BackoffCeilingMs))

\* what the failure of a run must carry, given only what its last attempt did
LastAttemptDiagnostics(obs, req) ==
    IF obs.kind = "spawn_err"
    THEN RunFailure(RunResult(ExitConfigOrSpawn, "failed", None),
                    <<"run command:", "os error">>)
    ELSE IF obs.kind = "timeout"
    THEN RunFailure(RunResult(ExitTimeout, "failed", tail(obs.text, TailLines, TailChars)),
                    <<"command timed out after", format_duration(req.timeout)>>)
    ELSE LET code == IF obs.status = Signalled THEN ExitNoCode ELSE obs.status IN
         RunFailure(RunResult(code, "failed", tail(obs.text, TailLines, TailChars)),
                    <<"command failed with exit code", ToString(code)>>)

\* C3: when every attempt failed, the returned failure (exit code, stderr tail,
\* message) is the one of the last attempt alone, whatever earlier attempts left.
C3_FailureReflectsLastAttempt ==
    (ValidReq1 /\ Done1 /\ ~T1.result.ok) =>
        T1.result = LastAttemptDiagnostics(F1.ex.obs, Req1)

\* three failed attempts, the last one a spawn error (which has no stderr tail)
C3_Witness ==
    /\ ValidReq1 /\ Done1 /\ ~T1.result.ok
    /\ F1.ex.made = 3
    /\ F1.ex.obs.kind = "spawn_err"
    /\ ~T1.result.result.stderr_tail.some

\* the request is one execute must reject: retries < 0, shell mode with a blank
\* string, or exec mode with no argument
RejectedReq1 ==
    \/ Req1.retries < 0
    \/ Req1.use_shell /\ \A i \in 1..Len(Req1.shell) : Req1.shell[i] \in Whitespace
    \/ ~Req1.use_shell /\ Req1.exec = <<>>

\* C4: a request with retries < 0, a blank shell string in shell mode or an empty
\* argument vector in exec mode is answered with Failed / 127 at once: no attempt,
\* no process, no sleep.
C4_ConfigErrorBeforeAnyAttempt ==
    RejectedReq1 =>
        /\ F1.ex.made = 0
        /\ spawned = 0
        /\ F1.ex.sleeps = <<>>
        /\ F1.pc \in {"execute", "returned"}
        /\ Done1 =>
              /\ ~T1.result.ok
              /\ T1.result.result.exit_code = ExitConfigOrSpawn
              /\ T1.result.result.status = "failed"
              /\ ~T1.result.result.stderr_tail.some

\* a rejected shell request whose string is white space only
C4_Witness ==
    /\ Done1 /\ ~T1.result.ok
    /\ Req1.use_shell /\ Req1.shell # <<>> /\ Req1.retries = 2
    /\ RejectedReq1
    /\ T1.result.message = <<"shell command is required">>

\* C5: an attempt whose child is still running at the deadline is reported only
\* after the kill was issued and the wait for the child returned, and it is then
\* a failed attempt with exit code 124 and the timeout error, whatever status the
\* child ended with.
C5_TimeoutKillWaitReport ==
    /\ F1.pc = "kill_child" =>
          ~F1.ex.child.kill_called /\ ~F1.ex.child.waited /\ F1.ex.obs.kind = "none"
    /\ F1.pc = "wait_killed" =>
          F1.ex.child.kill_called /\ ~F1.ex.child.waited /\ F1.ex.obs.kind = "none"
    /\ F1.ex.obs.kind = "timeout" =>
          /\ ~DurationIsZero(Req1.timeout)
          /\ F1.ex.child.kill_called /\ F1.ex.child.waited
          /\ F1.ex.failed = F1.ex.made
          /\ F1.pc = "attempt_failed" =>
                /\ F1.ex.last.exit = ExitTimeout
                /\ F1.ex.last.error =
                     <<"command timed out after", format_duration(Req1.timeout)>>
          /\ Done1 => ~T1.result.ok /\ T1.result.result.exit_code = ExitTimeout

\* a timed-out attempt whose child had ended with status 0 before the kill arrived
C5_Witness ==
    /\ F1.pc = "attempt_failed"
    /\ F1.ex.obs.kind = "timeout" /\ F1.ex.obs.status = 0
    /\ F1.ex.last.exit = ExitTimeout

\* C6: with timeout == 0 the executor never kills the child and never takes the
\* timeout path, however long the child runs: every attempt that had a child
\* ended because the child exited.
C6_ZeroTimeoutNeverKills ==
    DurationIsZero(Req1.timeout) =>
        /\ F1.pc \notin {"kill_child", "wait_killed"}
        /\ ~F1.ex.child.kill_called
        /\ ~F1.ex.timeout_hit
        /\ F1.ex.obs.kind # "timeout"
        /\ F1.ex.child.st = "reaped" => F1.ex.obs.kind = "exit"

\* unlimited timeout, and the child has run longer than every timeout of the model
C6_Witness ==
    /\ DurationIsZero(Req1.timeout)
    /\ F1.pc = "wait_child"
    /\ F1.ex.child.st = "running"
    /\ \A to \in TimeoutChoices : ~DurationLeq(Dur(F1.ex.child.elapsed * 1000), to)

\* C7: an attempt that ended without a timeout with child exit status 0 makes the
\* run Success with exit code 0 and no error; one that ended with exit status
\* n # 0 is reported with exit code n and an error, and with retries = 0 the run
\* returns Failed with exit_code n.
C7_ExitCodeReported ==
    (F1.ex.obs.kind = "exit" /\ F1.ex.obs.status # Signalled) =>
        IF F1.ex.obs.status = 0
        THEN /\ Done1 /\ T1.result.ok
             /\ T1.result.result.exit_code = 0
             /\ T1.result.result.status = "success"
             /\ T1.result.message = <<>>
        ELSE /\ F1.pc = "attempt_failed" =>
                  /\ F1.ex.last.exit = F1.ex.obs.status
                  /\ F1.ex.last.error # <<>>
             /\ Done1 =>
                  /\ ~T1.result.ok
                  /\ T1.result.result.status = "failed"
                  /\ T1.result.result.exit_code = F1.ex.obs.status
                  /\ T1.result.message # <<>>

\* retries = 0, the child exits with 7: Failed with exit_code 7
C7_Witness ==
    /\ Req1.retries = 0 /\ Done1
    /\ F1.ex.obs.kind = "exit" /\ F1.ex.obs.status = 7
    /\ T1.result.result.exit_code = 7 /\ T1.result.result.status = "failed"

\* an attempt has just failed because its process could not be created
SpawnErrorPending ==
    /\ T1.state = "running"
    /\ F1.pc = "attempt_failed"
    /\ F1.ex.obs.kind = "spawn_err"

\* C8: a spawn failure ends only the attempt: it leaves exit code 127 and no
\* stderr tail, and when attempts remain the next step is the backoff sleep and
\* the next attempt; an attempt that succeeds after a spawn failure makes the run
\* Success.
C8_SpawnErrorIsRetried ==
    /\ [](SpawnErrorPending =>
            /\ F1.ex.last.exit = ExitConfigOrSpawn
            /\ ~F1.ex.last.stderr.some)
    /\ [][(SpawnErrorPending /\ F1.ex.attempt < Req1.retries) =>
            /\ threads'[1].state = "running"
            /\ threads'[1].frames[1].pc = "run_once"
            /\ threads'[1].frames[1].ex.attempt = F1.ex.attempt + 1
            /\ Len(threads'[1].frames[1].ex.sleeps) = Len(F1.ex.sleeps) + 1]_vars
    /\ [][(F1.pc = "wait_child" /\ F1.ex.last.exit = ExitConfigOrSpawn
           /\ SuccessObs(threads'[1].frames[1].ex.obs)) =>
            /\ threads'[1].state = "done"
            /\ threads'[1].result.ok
            /\ threads'[1].result.result.status = "success"]_vars

\* the attempt after a spawn failure is under way
C8_Witness ==
    /\ F1.pc = "wait_child"
    /\ F1.ex.made >= 2
    /\ F1.ex.last.exit = ExitConfigOrSpawn
    /\ F1.ex.last.error = <<"run command:", "os error">>

----------------------------------------------------------------------------
(* config.rs: the task map, its validation and resolve_task *)

NoInt == [some |-> FALSE, val |-> 0]
SomeInt(n) == [some |-> TRUE, val |-> n]

\* humantime::parse_duration on the duration texts the configs of the model use
parse_duration(text) ==
    CASE text = "0s" -> Some(Dur(0))
      [] text = "1s" -> Some(Dur(1000))
      [] text = "2s" -> Some(Dur(2000))
      [] OTHER -> None

resolve_duration(primary, fallback, default_value) ==
    IF primary # "" THEN parse_duration(primary)
    ELSE IF fallback # "" THEN parse_duration(fallback)
    ELSE Some(default_value)

resolve_retries_zero_is_unset(primary, fallback, default_value) ==
    IF primary.some /\ primary.val # 0 THEN primary.val
    ELSE IF fallback.some THEN fallback.val
    ELSE default_value

resolve_retries(primary, fallback, default_value) ==
    IF primary.some THEN primary.val
    ELSE IF fallback.some THEN fallback.val
    ELSE default_value

resolve_notify_on(primary, fallback, default_value) ==
    IF primary # "" THEN primary
    ELSE IF fallback # "" THEN fallback
    ELSE default_value

join_command_preview(args) == JoinWith(args, <<" ">>)

join_task_preview(tasks, parallel) ==
    <<IF parallel THEN "tasks (parallel):" ELSE "tasks (sequential):">>
        \o JoinWith([i \in 1..Len(tasks) |-> <<tasks[i]>>], <<",">>)

ResolveErr(msg) == [ok |-> FALSE, task |-> <<>>, err |-> msg]
ResolveOk(task) == [ok |-> TRUE, task |-> task, err |-> <<>>]

resolve_task_tasks_first(c, name) ==
    IF name \notin DOMAIN c.tasks THEN ResolveErr(<<"task", name, "not found">>)
    ELSE
    LET task == c.tasks[name]
        timeout == resolve_duration(task.timeout, c.defaults.timeout, Dur(0))
        retries == resolve_retries(task.retries, c.defaults.retries, 0)
        retry_backoff == resolve_duration(task.retry_backoff, c.defaults.retry_backoff,
                                          Dur(DefaultBackoffMs))
        notify_on == resolve_notify_on(task.notify_on, c.defaults.notify_on, "failure")
        base == [name |-> name, source |-> "task", command_preview |-> <<>>,
                 sub_tasks |-> <<>>, parallel |-> task.parallel,
                 use_shell |-> FALSE, exec |-> <<>>, shell |-> <<>>,
                 dir |-> task.dir, env |-> task.env,
                 timeout |-> timeout.val, retries |-> retries,
                 retry_backoff |-> retry_backoff.val, notify_on |-> notify_on]
    IN IF ~timeout.some
       THEN ResolveErr(<<"task", name, "timeout:", "must be a valid duration">>)
       ELSE IF ~retry_backoff.some
       THEN ResolveErr(<<"task", name, "retry_backoff:", "must be a valid duration">>)
       ELSE IF task.tasks # <<>>
       THEN ResolveOk([base EXCEPT !.sub_tasks = task.tasks,
                                   !.command_preview =
                                        join_task_preview(task.tasks, task.parallel)])
       ELSE IF task.exec # <<>>
       THEN ResolveOk([base EXCEPT !.exec = task.exec,
                                   !.command_preview = join_command_preview(task.exec)])
       ELSE ResolveOk([base EXCEPT !.use_shell = TRUE, !.shell = task.run,
                                   !.command_preview = task.run])

\* Config::resolve_task
resolve_task(c, name) ==
    IF name \notin DOMAIN c.tasks THEN ResolveErr(<<"task", name, "not found">>)
    ELSE
    LET task == c.tasks[name]
        timeout == resolve_duration(task.timeout, c.defaults.timeout, Dur(0))
        retries == resolve_retries(task.retries, c.defaults.retries, 0)
        retry_backoff == resolve_duration(task.retry_backoff, c.defaults.retry_backoff,
                                          Dur(DefaultBackoffMs))
        notify_on == resolve_notify_on(task.notify_on, c.defaults.notify_on, "failure")
        base == [name |-> name, source |-> "task", command_preview |-> <<>>,
                 sub_tasks |-> <<>>, parallel |-> task.parallel,
                 use_shell |-> FALSE, exec |-> <<>>, shell |-> <<>>,
                 dir |-> task.dir, env |-> task.env,
                 timeout |-> timeout.val, retries |-> retries,
                 retry_backoff |-> retry_backoff.val, notify_on |-> notify_on]
    IN IF ~timeout.some
       THEN ResolveErr(<<"task", name, "timeout:", "must be a valid duration">>)
       ELSE IF ~retry_backoff.some
       THEN ResolveErr(<<"task", name, "retry_backoff:", "must be a valid duration">>)
       ELSE IF task.exec # <<>>
       THEN ResolveOk([base EXCEPT !.exec = task.exec,
                                   !.command_preview = join_command_preview(task.exec)])
       ELSE IF task.tasks # <<>>
       THEN ResolveOk([base EXCEPT !.sub_tasks = task.tasks,
                                   !.command_preview =
                                        join_task_preview(task.tasks, task.parallel)])
       ELSE ResolveOk([base EXCEPT !.use_shell = TRUE, !.shell = task.run,
                                   !.command_preview = task.run])

RetriesInRangeNoUpperBound(retries) == retries >= 0

\* (0..=10).contains(&retries)
RetriesInRange(retries) == retries \in 0..MaxRetries

\* config::resolve_inline; timeout_flag and notify_on_flag are "" and
\* retries_flag is NoInt when the flag is not given
resolve_inline(args, name, timeout_flag, retries_flag, notify_on_flag, defaults) ==
    LET timeout == resolve_duration(timeout_flag, defaults.timeout, Dur(0))
        retries == IF retries_flag.some THEN retries_flag.val
                   ELSE resolve_retries(NoInt, defaults.retries, 0)
        retry_backoff == resolve_duration("", defaults.retry_backoff,
                                          Dur(DefaultBackoffMs))
        notify_on == resolve_notify_on(notify_on_flag, defaults.notify_on, "failure")
    IN IF args = <<>> THEN ResolveErr(<<"inline command is required after --">>)
       ELSE IF ~timeout.some
       THEN ResolveErr(<<"inline timeout:", "must be a valid duration">>)
       ELSE IF ~RetriesInRange(retries)
       THEN ResolveErr(<<"inline retries must be between 0 and 10">>)
       ELSE IF ~retry_backoff.some
       THEN ResolveErr(<<"inline retry_backoff:", "must be a valid duration">>)
       ELSE ResolveOk([name |-> IF IsBlank(name) THEN "inline" ELSE name,
                       source |-> "inline",
                       command_preview |-> join_command_preview(args),
                       sub_tasks |-> <<>>, parallel |-> FALSE, use_shell |-> FALSE,
                       exec |-> args, shell |-> <<>>, dir |-> <<>>, env |-> <<>>,
                       timeout |-> timeout.val, retries |-> retries,
                       retry_backoff |-> retry_backoff.val, notify_on |-> notify_on])

VALID_NOTIFY_ON == {"never", "failure", "always"}
RESERVED_NAMES == {"init", "run", "history", "tasks", "validate", "version", "completion"}

validate_defaults(d) ==
    /\ d.timeout # "" => parse_duration(d.timeout).some
    /\ d.retries.some => RetriesInRange(d.retries.val)
    /\ d.retry_backoff # "" => parse_duration(d.retry_backoff).some
    /\ d.notify_on # "" => d.notify_on \in VALID_NOTIFY_ON

\* validate_task_name, for names that match the name pattern
validate_task_name(name) == name \notin RESERVED_NAMES

validate_task(task) ==
    LET has_exec == task.exec # <<>>
        has_run == task.run # <<>>
        has_tasks == task.tasks # <<>>
        mode_count == (IF has_exec THEN 1 ELSE 0) + (IF has_run THEN 1 ELSE 0)
                        + (IF has_tasks THEN 1 ELSE 0)
    IN /\ mode_count = 1
       /\ \A i \in 1..Len(task.exec) : task.exec[i] # <<>>
       /\ task.timeout # "" => parse_duration(task.timeout).some
       /\ task.retries.some => RetriesInRange(task.retries.val)
       /\ task.retry_backoff # "" => parse_duration(task.retry_backoff).some
       /\ task.notify_on # "" => task.notify_on \in VALID_NOTIFY_ON
       /\ has_tasks =>
            /\ task.dir = <<>>
            /\ task.env = <<>>
            /\ task.timeout = ""
            /\ ~task.retries.some
            /\ task.retry_backoff = ""
            /\ \A i \in 1..Len(task.tasks) : task.tasks[i] # ""

\* a check of the sub-task names that accepts a task listing itself
validate_task_dependencies_known_only(tasks) ==
    \A name \in DOMAIN tasks :
        \A i \in 1..Len(tasks[name].tasks) : tasks[name].tasks[i] \in DOMAIN tasks

\* TRUE when no sub-task name is the task's own name or an unknown name
validate_task_dependencies(tasks) ==
    \A name \in DOMAIN tasks :
        \A i \in 1..Len(tasks[name].tasks) :
            /\ tasks[name].tasks[i] # name
            /\ tasks[name].tasks[i] \in DOMAIN tasks

\* config::validate: TRUE when no issue is found
validate(c) ==
    /\ validate_defaults(c.defaults)
    /\ DOMAIN c.tasks # {}
    /\ \A name \in DOMAIN c.tasks :
          validate_task_name(name) /\ validate_task(c.tasks[name])
    /\ validate_task_dependencies(c.tasks)

----------------------------------------------------------------------------
(* cli: run_named_task, execute_task_group, execute_run *)

AppError(code, msg) == [ok |-> FALSE, code |-> code, msg |-> msg]
usage(msg) == AppError(ExitUsage, msg)
runtime(msg) == AppError(ExitRuntime, msg)
\* an append failure reported in the class of a failed run
internalAsRuntime(msg) == AppError(ExitRuntime, msg)

internal(msg) == AppError(ExitInternal, msg)
Ok == [ok |-> TRUE, code |-> 0, msg |-> <<>>]

\* a search of the stack that never finds the name
PositionNeverFound(stack, name) == 0

\* stack.iter().position(|name| name == task_name): 0 when absent
Position(stack, name) ==
    IF \E i \in 1..Len(stack) : stack[i] = name
    THEN CHOOSE i \in 1..Len(stack) :
            stack[i] = name /\ \A j \in 1..(i - 1) : stack[j] # name
    ELSE 0

CycleChainWithoutRepeat(stack, name) ==
    SubSeq(stack, Position(stack, name), Len(stack))

\* the cycle chain: stack[index..] with the repeated name pushed
CycleChain(stack, name) ==
    Append(SubSeq(stack, Position(stack, name), Len(stack)), name)

\* format!("task dependency cycle: {}", cycle.join(" -> "))
CycleMessage(stack, name) ==
    <<"task dependency cycle:">>
        \o JoinWith([i \in 1..Len(CycleChain(stack, name)) |->
                        <<CycleChain(stack, name)[i]>>], <<"->">>)

\* format!("{child}: {err}")
ChildFailure(child, err) == <<child, ":">> \o err.msg

\* character classes of the variable names: is_ascii_alphabetic,
\* is_ascii_alphanumeric
Alphabetic == {"A", "B", "N", "v"}
Alphanumeric == Alphabetic \cup {"1"}

\* value[from..].find(ch): the first index >= from holding ch, 0 when there is none
Find(value, from, ch) ==
    IF \E e \in from..Len(value) : value[e] = ch
    THEN CHOOSE e \in from..Len(value) :
            value[e] = ch /\ \A k \in from..(e - 1) : value[k] # ch
    ELSE 0

\* the inner while loop of expand_variables: the index after the longest name
\* that starts at `start`
RECURSIVE NameEnd(_, _, _)
NameEnd(value, start, j) ==
    IF j > Len(value) THEN j
    ELSE IF j = start /\ ~(value[j] \in Alphabetic \/ value[j] = "_") THEN j
    ELSE IF j # start /\ ~(value[j] \in Alphanumeric \/ value[j] = "_") THEN j
    ELSE NameEnd(value, start, j + 1)

ReplacementDropsUnknown(key, lookup) ==
    IF key \in DOMAIN lookup THEN lookup[key] ELSE <<>>

\* lookup.get(key), or format!("${{{key}}}") when the key is not found
Replacement(key, lookup) ==
    IF key \in DOMAIN lookup THEN lookup[key] ELSE <<"$", "{">> \o key \o <<"}">>

\* str::as_bytes: the UTF-8 bytes of a text. An ASCII character is its own byte;
\* the one character outside ASCII of the model, é (U+00E9), is the two bytes
\* 0xC3 0xA9
RECURSIVE as_bytes(_)
as_bytes(value) ==
    IF value = <<>> THEN <<>>
    ELSE (IF value[1] = "é" THEN <<"0xC3", "0xA9">> ELSE <<value[1]>>)
            \o as_bytes(Tail(value))

\* the str slice &value[a..b] of the bytes: the characters they encode
RECURSIVE str_of(_)
str_of(bytes) ==
    IF bytes = <<>> THEN <<>>
    ELSE IF Len(bytes) >= 2 /\ bytes[1] = "0xC3" /\ bytes[2] = "0xA9"
    THEN <<"é">> \o str_of(SubSeq(bytes, 3, Len(bytes)))
    ELSE <<bytes[1]>> \o str_of(Tail(bytes))

\* bytes[i] as char: the character whose code point is the value of the byte
\* (0xC3 is Ã, 0xA9 is ©)
ByteAsChar(byte) ==
    IF byte = "0xC3" THEN "Ã" ELSE IF byte = "0xA9" THEN "©" ELSE byte

\* the outer loop of expand_variables over the bytes of the text, from index i
\* with `out` built so far
RECURSIVE ExpandFrom(_, _, _, _)
ExpandFrom(value, lookup, i, out) ==
    IF i > Len(value) THEN out
    ELSE IF value[i] # "$"
    THEN ExpandFrom(value, lookup, i + 1, Append(out, ByteAsChar(value[i])))
    ELSE IF i + 1 > Len(value) THEN Append(out, "$")
    ELSE IF value[i + 1] = "{"
    THEN LET end == Find(value, i + 2, "}") IN
         IF end # 0
         THEN ExpandFrom(value, lookup, end + 1,
                         out \o Replacement(str_of(SubSeq(value, i + 2, end - 1)), lookup))
         ELSE ExpandFrom(value, lookup, i + 1, Append(out, "$"))
    ELSE LET j == NameEnd(value, i + 1, i + 1) IN
         IF j = i + 1
         THEN ExpandFrom(value, lookup, i + 1, Append(out, "$"))
         ELSE ExpandFrom(value, lookup, j,
                         out \o Replacement(str_of(SubSeq(value, i + 1, j - 1)), lookup))

expand_variables(value, lookup) == ExpandFrom(as_bytes(value), lookup, 1, <<>>)

\* the order of keys.sort() on the variable names of the model
CharCode == [c \in {"A", "B", "N"} |-> IF c = "A" THEN 65 ELSE IF c = "B" THEN 66 ELSE 78]

\* an order that puts the later variable name first
KeyLessReversed(a, b) ==
    a # <<>> /\ (b = <<>> \/ CharCode[a[1]] > CharCode[b[1]])

RECURSIVE KeyLess(_, _)
KeyLess(a, b) ==
    IF a = <<>> THEN b # <<>>
    ELSE IF b = <<>> THEN FALSE
    ELSE IF a[1] # b[1] THEN CharCode[a[1]] < CharCode[b[1]]
    ELSE KeyLess(Tail(a), Tail(b))

\* a map with key set to value (HashMap::insert)
Insert(map, key, value) ==
    [k \in DOMAIN map \cup {key} |-> IF k = key THEN value ELSE map[k]]

\* a first loop that lets a dotenv value replace the process environment's
DotenvAdditionsOverriding(process_env, dotenv_vars) == dotenv_vars

\* the first loop of apply_runtime_env: the dotenv variables whose key the
\* process environment does not hold
DotenvAdditions(process_env, dotenv_vars) ==
    [k \in DOMAIN dotenv_vars \ DOMAIN process_env |-> dotenv_vars[k]]

\* lookup after the first loop
BaseLookup(process_env, dotenv_vars) ==
    [k \in DOMAIN process_env \cup DOMAIN dotenv_vars |->
        IF k \in DOMAIN process_env THEN process_env[k] ELSE dotenv_vars[k]]

\* the second loop: the keys of the task's env in sorted order, each value
\* expanded with the lookup built so far; acc = [runtime_env, lookup]
RECURSIVE TaskEnvLoop(_, _, _)
TaskEnvLoop(task_env, keys, acc) ==
    IF keys = {} THEN acc
    ELSE LET key == CHOOSE k \in keys : \A o \in keys \ {k} : KeyLess(k, o)
             expanded == expand_variables(task_env[key], acc.lookup)
         IN TaskEnvLoop(task_env, keys \ {key},
                        [runtime_env |-> Insert(acc.runtime_env, key, expanded),
                         lookup |-> Insert(acc.lookup, key, expanded)])

\* cli::apply_runtime_env
apply_runtime_env(resolved, process_env, dotenv_vars) ==
    LET acc == TaskEnvLoop(resolved.env, DOMAIN resolved.env,
                           [runtime_env |-> DotenvAdditions(process_env, dotenv_vars),
                            lookup |-> BaseLookup(process_env, dotenv_vars)])
        lookup == acc.lookup
        dir == IF resolved.dir # <<>> THEN expand_variables(resolved.dir, lookup)
               ELSE resolved.dir
        exec == [i \in 1..Len(resolved.exec) |-> expand_variables(resolved.exec[i], lookup)]
        base == [resolved EXCEPT !.dir = dir, !.env = acc.runtime_env]
    IN IF resolved.use_shell
       THEN [base EXCEPT !.shell = expand_variables(resolved.shell, lookup),
                         !.command_preview = expand_variables(resolved.shell, lookup)]
       ELSE IF resolved.exec # <<>>
       THEN [base EXCEPT !.exec = exec, !.command_preview = JoinWith(exec, <<" ">>)]
       ELSE base

EnvChoices ==
    {NoEnv, [process |-> [k \in {<<"A">>} |-> <<"v">>], dotenv |-> EmptyMap]}

\* a command of the config holds a '$'
UsesVariables(c) ==
    \E n \in DOMAIN c.tasks :
        \/ \E i \in 1..Len(c.tasks[n].run) : c.tasks[n].run[i] = "$"
        \/ \E k \in 1..Len(c.tasks[n].exec) :
              \E i \in 1..Len(c.tasks[n].exec[k]) : c.tasks[n].exec[k][i] = "$"

should_notify(policy, status) ==
    CASE policy = "never" -> FALSE
      [] policy = "always" -> TRUE
      [] OTHER -> status = "failed"

RunRecord(name, source, command_preview, exit_code, status, stderr_tail) ==
    [name |-> name, source |-> source, command_preview |-> command_preview,
     exit_code |-> exit_code, status |-> status, stderr_tail |-> stderr_tail]

\* the record execute_run builds from the result of execute
LeafRecord(resolved, result) ==
    RunRecord(resolved.name, resolved.source, resolved.command_preview,
              result.exit_code, result.status, result.stderr_tail)

GroupRecordCountsFailures(resolved, failures) ==
    RunRecord(resolved.name, "task", resolved.command_preview,
              Len(failures),
              IF failures = <<>> THEN "success" ELSE "failed",
              IF failures = <<>> THEN None ELSE Some(JoinWith(failures, <<";">>)))

\* status, exit_code and stderr_tail of a group, and its record
GroupRecord(resolved, failures) ==
    RunRecord(resolved.name, "task", resolved.command_preview,
              IF failures = <<>> THEN 0 ELSE 1,
              IF failures = <<>> THEN "success" ELSE "failed",
              IF failures = <<>> THEN None ELSE Some(JoinWith(failures, <<";">>)))

\* the result execute_task_group returns after the record and the notification
GroupResult(failures) ==
    IF failures = <<>> THEN Ok ELSE runtime(JoinWith(failures, <<";">>))

\* the result execute_run returns after the record and the notification
LeafResult(exres) ==
    IF exres.ok THEN Ok ELSE runtime(exres.message)

\* the notify::Event built from a record
Event(record) ==
    [name |-> record.name, source |-> record.source, status |-> record.status,
     exit_code |-> record.exit_code, stderr_tail |-> record.stderr_tail]

\* a return that leaves the name on the stack
PopNothing(stack) == stack

\* stack.pop()
Pop(stack) == SubSeq(stack, 1, Len(stack) - 1)

SeqResumeNoBreak(caller, res) ==
    LET more == caller.idx + 1 <= Len(caller.rt.sub_tasks) IN
    [caller EXCEPT !.idx = IF res.ok \/ more THEN @ + 1 ELSE @,
                   !.failures = IF res.ok THEN @
                                ELSE Append(@, ChildFailure(caller.rt.sub_tasks[caller.idx], res)),
                   !.pc = IF more THEN "group_seq" ELSE "group_append"]

\* the sequential loop of execute_task_group takes the result of the child it
\* called: a failure is pushed and ends the loop, a success moves to the next child
SeqResume(caller, res) ==
    IF res.ok
    THEN [caller EXCEPT !.idx = @ + 1,
                        !.pc = IF caller.idx + 1 > Len(caller.rt.sub_tasks)
                               THEN "group_append" ELSE "group_seq"]
    ELSE [caller EXCEPT !.failures =
                            Append(@, ChildFailure(caller.rt.sub_tasks[caller.idx], res)),
                        !.pc = "group_append"]

\* the closure of a unit: .map_err(|err| format!("{child_name}: {err}"))
UnitResult(child_name, res) ==
    IF res.ok THEN Ok ELSE [ok |-> FALSE, code |-> 0, msg |-> ChildFailure(child_name, res)]

\* run_named_task returns res from the top frame of thread t, leaving `stack` as
\* the thread's call stack: to the sequential loop that called it, or as the
\* result of the thread
Return(t, res, stack) ==
    LET th == threads[t]
        n == Len(th.frames)
    IN IF n = 1
       THEN [threads EXCEPT ![t] =
                [th EXCEPT !.frames = <<[th.frames[1] EXCEPT !.pc = "returned"]>>,
                           !.stack = stack, !.state = "done",
                           !.result = IF th.unit THEN UnitResult(th.child_name, res)
                                      ELSE res]]
       ELSE [threads EXCEPT ![t] =
                [th EXCEPT !.stack = stack,
                           !.frames = Append(SubSeq(th.frames, 1, n - 2),
                                             SeqResume(th.frames[n - 1], res))]]

\* run_named_task: the name is already on the stack
CycleDetected(t) ==
    /\ At(t, "run_named_task")
    /\ Position(threads[t].stack, Fr(t).name) # 0
    /\ threads' = Return(t, usage(CycleMessage(threads[t].stack, Fr(t).name)),
                         threads[t].stack)
    /\ UNCHANGED <<env, cfg, history, notified, spawned>>

\* run_named_task: the name is pushed, resolve_task fails and `?` returns the
\* usage error (the stack.pop() further down is not reached)
ResolveFails(t) ==
    /\ At(t, "run_named_task")
    /\ Position(threads[t].stack, Fr(t).name) = 0
    /\ ~resolve_task(cfg, Fr(t).name).ok
    /\ threads' = Return(t, usage(resolve_task(cfg, Fr(t).name).err),
                         Append(threads[t].stack, Fr(t).name))
    /\ UNCHANGED <<env, cfg, history, notified, spawned>>

\* run_named_task: a task without sub-tasks goes to execute_run, which calls execute
EnterLeaf(t) ==
    /\ At(t, "run_named_task")
    /\ Position(threads[t].stack, Fr(t).name) = 0
    /\ LET r == resolve_task(cfg, Fr(t).name) IN
       /\ r.ok
       /\ r.task.sub_tasks = <<>>
       /\ threads' = [WithTop(t, [Fr(t) EXCEPT !.pc = "execute",
                                               !.rt = apply_runtime_env(r.task, env.process, env.dotenv)])
                        EXCEPT ![t].stack = Append(@, Fr(t).name)]
    /\ UNCHANGED <<env, cfg, history, notified, spawned>>

RejectsJsonNever(as_json) == FALSE

\* if as_json { return Err(AppError::usage(..)) } at the top of execute_task_group
RejectsJson(as_json) == as_json

\* execute_task_group: --json is refused; run_named_task pops and returns the error
GroupRejectsJson(t) ==
    /\ At(t, "run_named_task")
    /\ Position(threads[t].stack, Fr(t).name) = 0
    /\ LET r == resolve_task(cfg, Fr(t).name) IN
       /\ r.ok
       /\ r.task.sub_tasks # <<>>
       /\ RejectsJson(Fr(t).json)
    /\ threads' = Return(t, usage(<<"--json is not supported for composed tasks yet">>),
                         threads[t].stack)
    /\ UNCHANGED <<env, cfg, history, notified, spawned>>

\* execute_task_group begins: failures is empty, the loop over sub_tasks starts
EnterGroup(t) ==
    /\ At(t, "run_named_task")
    /\ Position(threads[t].stack, Fr(t).name) = 0
    /\ LET r == resolve_task(cfg, Fr(t).name) IN
       /\ r.ok
       /\ r.task.sub_tasks # <<>>
       /\ ~RejectsJson(Fr(t).json)
       /\ threads' = [WithTop(t, [Fr(t) EXCEPT
                            !.pc = IF r.task.parallel THEN "group_spawn" ELSE "group_seq",
                            !.rt = r.task, !.idx = 1, !.failures = <<>>,
                            !.handles = <<>>, !.called = <<>>])
                        EXCEPT ![t].stack = Append(@, Fr(t).name)]
    /\ UNCHANGED <<env, cfg, history, notified, spawned>>

\* the sequential loop calls run_named_task(cfg, child, .., false, .., false, stack)
GroupSeqCall(t) ==
    /\ At(t, "group_seq")
    /\ LET f == Fr(t)
           child == f.rt.sub_tasks[f.idx]
       IN threads' = [threads EXCEPT ![t].frames =
            Append([@ EXCEPT ![Len(@)].pc = "group_wait",
                             ![Len(@)].called = Append(@, child)],
                   [Frame(child, "run_named_task", FALSE, FALSE, FALSE, f.rt)
                       EXCEPT !.notifications = f.notifications])]
    /\ UNCHANGED <<env, cfg, history, notified, spawned>>

\* the parallel loop: thread::spawn of the unit for the next sub-task, with clones
\* of the config and of the stack
GroupSpawn(t) ==
    /\ At(t, "group_spawn")
    /\ Len(threads) < MaxThreads
    /\ LET f == Fr(t)
           child == f.rt.sub_tasks[f.idx]
           h == Len(threads) + 1
           last == f.idx = Len(f.rt.sub_tasks)
           g == [f EXCEPT !.handles = Append(@, h),
                          !.called = Append(@, child),
                          !.idx = IF last THEN 1 ELSE @ + 1,
                          !.pc = IF last THEN "group_join" ELSE "group_spawn"]
       IN threads' = Append(WithTop(t, g),
                            Thread(<<[Frame(child, "run_named_task", FALSE, FALSE, FALSE, f.rt)
                                        EXCEPT !.notifications = f.notifications]>>,
                                   threads[t].stack, TRUE, child))
    /\ UNCHANGED <<env, cfg, history, notified, spawned>>

JoinableAlways(h) == TRUE

JoinedFirstOnly(failures, th) ==
    IF th.result.ok \/ failures # <<>> THEN failures ELSE Append(failures, th.result.msg)

\* a join loop that puts the failure of a later handle first
JoinedPrepends(failures, th) ==
    IF th.state = "panicked" THEN <<(<<"task thread panicked">>)>> \o failures
    ELSE IF th.result.ok THEN failures
    ELSE <<th.result.msg>> \o failures

\* a join loop that takes a panicked unit for a successful one
JoinedIgnoresPanic(failures, th) ==
    IF th.state = "panicked" \/ th.result.ok THEN failures
    ELSE Append(failures, th.result.msg)

\* the match on handle.join(): Ok(Ok(())), Ok(Err(err)) and Err(_) for a panic
Joined(failures, th) ==
    IF th.state = "panicked" THEN Append(failures, <<"task thread panicked">>)
    ELSE IF th.result.ok THEN failures
    ELSE Append(failures, th.result.msg)

\* handle.join() blocks until the thread of the handle has ended
Joinable(h) == threads[h].state # "running"

\* handle.join() of the next handle returns once its unit has ended
GroupJoin(t) ==
    /\ At(t, "group_join")
    /\ LET f == Fr(t)
           h == f.handles[f.idx]
           last == f.idx = Len(f.handles)
       IN /\ Joinable(h)
          /\ threads' = WithTop(t, [f EXCEPT
                !.failures = Joined(@, threads[h]),
                !.idx = IF last THEN 1 ELSE @ + 1,
                !.pc = IF last THEN "group_append" ELSE "group_join"])
    /\ UNCHANGED <<env, cfg, history, notified, spawned>>

NotifiesWhateverEmit(emit, policy, status) == should_notify(policy, status)

\* if emit_notifications && should_notify(&resolved.notify_on, status)
Notifies(emit, policy, status) == emit /\ should_notify(policy, status)

\* what notify::Manager::notify does with the desktop channel: not attempted when
\* disabled, else attempted with either outcome
DesktopOutcomes(settings) ==
    IF settings.desktop_enabled THEN {"ok", "failed"} ELSE {"skipped"}

\* a notifier that gives up after a failed desktop notification
WebhookOutcomesGivesUp(settings, desktop) ==
    IF settings.webhook_url # "" /\ desktop # "failed" THEN {"ok", "failed"}
    ELSE {"skipped"}

\* the webhook is attempted whenever a URL is set, whatever the desktop channel did
WebhookOutcomes(settings, desktop) ==
    IF settings.webhook_url # "" THEN {"ok", "failed"} ELSE {"skipped"}

\* an event handed to Manager::notify, with what became of the two channels;
\* `warned` is the eprintln of the caller for the Err that notify returns
Delivery(event, desktop, webhook) ==
    [name |-> event.name, source |-> event.source, status |-> event.status,
     exit_code |-> event.exit_code, stderr_tail |-> event.stderr_tail,
     desktop |-> desktop, webhook |-> webhook,
     warned |-> (desktop = "failed" \/ webhook = "failed")]

\* the notifications after the notification step of a run: unchanged when none
\* is due, else one more delivery, with any outcome of the attempted channels
Deliveries(f, record) ==
    IF Notifies(f.emit, f.rt.notify_on, record.status)
    THEN UNION {{Append(notified, Delivery(Event(record), desktop, webhook)) :
                    webhook \in WebhookOutcomes(f.notifications, desktop)} :
                desktop \in DesktopOutcomes(f.notifications)}
    ELSE {notified}

\* execute_task_group: the record is built and store.append(&record) succeeds
GroupAppend(t) ==
    /\ At(t, "group_append")
    /\ history' = Append(history, GroupRecord(Fr(t).rt, Fr(t).failures))
    /\ threads' = WithTop(t, [Fr(t) EXCEPT !.pc = "group_finish", !.appended = TRUE])
    /\ UNCHANGED <<env, cfg, notified, spawned>>

\* execute_task_group: the notification, if due, and the return; run_named_task pops
GroupFinish(t) ==
    /\ At(t, "group_finish")
    /\ LET f == Fr(t)
           record == GroupRecord(f.rt, f.failures)
       IN /\ notified' \in Deliveries(f, record)
          /\ threads' = Return(t, GroupResult(f.failures), Pop(threads[t].stack))
    /\ UNCHANGED <<env, cfg, history, spawned>>

\* execute_run: the record is built and store.append(&record) succeeds
LeafAppend(t) ==
    /\ At(t, "execute_run_append")
    /\ history' = Append(history, LeafRecord(Fr(t).rt, Fr(t).exres.result))
    /\ threads' = WithTop(t, [Fr(t) EXCEPT !.pc = "execute_run_finish", !.appended = TRUE])
    /\ UNCHANGED <<env, cfg, notified, spawned>>

\* execute_run: the notification, if due, and the return; run_named_task pops
LeafFinish(t) ==
    /\ At(t, "execute_run_finish")
    /\ LET f == Fr(t)
           record == LeafRecord(f.rt, f.exres.result)
       IN /\ notified' \in Deliveries(f, record)
          /\ threads' = Return(t, LeafResult(f.exres), Pop(threads[t].stack))
    /\ UNCHANGED <<env, cfg, history, spawned>>

----------------------------------------------------------------------------
(* Spec: `otto run <task>` on a validated config *)

NoDefaults == [timeout |-> "", retries |-> NoInt, retry_backoff |-> "", notify_on |-> ""]

LeafTask ==
    [exec |-> <<<<"p">>>>, run |-> <<>>, tasks |-> <<>>, parallel |-> FALSE,
     dir |-> <<>>, env |-> <<>>, timeout |-> "", retries |-> NoInt,
     retry_backoff |-> "", notify_on |-> ""]

GroupTask(subs, parallel) ==
    [LeafTask EXCEPT !.exec = <<>>, !.tasks = subs, !.parallel = parallel]

\* the sub-task lists of the task graphs run (<<>> marks a leaf)
Shapes ==
    { [n \in {"a", "b"} |-> IF n = "a" THEN <<"b">> ELSE <<"a">>],
      [n \in {"a", "b", "c"} |-> IF n = "a" THEN <<"b", "c">> ELSE <<>>],
      [n \in {"a", "b", "c"} |->
            IF n = "a" THEN <<"b", "c">> ELSE IF n = "c" THEN <<"a">> ELSE <<>>],
      [n \in {"a", "b", "c", "d"} |->
            IF n = "a" THEN <<"b", "c">> ELSE IF n = "d" THEN <<>> ELSE <<"d">>],
      [n \in {"a", "b"} |-> IF n = "a" THEN <<"a", "b">> ELSE <<>>],
      [n \in {"a", "b"} |-> IF n = "a" THEN <<"b", "zz">> ELSE <<>>] }

ConfigOf(shape, par, notify_on) ==
    [defaults |-> [NoDefaults EXCEPT !.notify_on = notify_on],
     tasks |-> [n \in DOMAIN shape |->
                  IF shape[n] = <<>> THEN LeafTask ELSE GroupTask(shape[n], par[n])]]

\* configs of one task "a" run on its own: with a timeout, with retries of its
\* own or from the defaults, or as a shell command that is blank
LeafConfigs ==
    { [defaults |-> [NoDefaults EXCEPT !.retries = dr, !.notify_on = notify_on],
       tasks |-> [n \in {"a"} |-> task]] :
         dr \in {NoInt, SomeInt(1)}, notify_on \in {"", "never"},
         task \in { [LeafTask EXCEPT !.timeout = "1s"],
                    [LeafTask EXCEPT !.retries = SomeInt(0)],
                    [LeafTask EXCEPT !.retries = SomeInt(11)],
                    [LeafTask EXCEPT !.exec = <<>>, !.run = <<" ">>],
                    [LeafTask EXCEPT !.exec = <<>>, !.run = <<"$", "A">>] } }

\* the configs that config::load hands to run_run: only those validate accepts
Configs ==
    { c \in { ConfigOf(shape, par, notify_on) :
                shape \in Shapes, par \in [{"a", "b", "c", "d"} -> BOOLEAN],
                notify_on \in {"", "always"} } \cup LeafConfigs : validate(c) }

\* the resolved notifications section of a config: the default, both channels,
\* or none (Config::resolve_notification_settings)
NotificationChoices ==
    {DefaultNotifications,
     [desktop_enabled |-> TRUE, webhook_url |-> "http://hook"],
     [desktop_enabled |-> FALSE, webhook_url |-> ""]}

\* the flags of `otto run [flags] -- p`: --notify-on is absent, a policy, or
\* another word
InlineRuns ==
    {[inline |-> <<<<"p">>>>, name |-> "", timeout |-> "", retries |-> NoInt,
      notify_on |-> notify_on] : notify_on \in {"", "never", "always", "sometimes"}}

\* run_run: the inline command is resolved with the defaults of the config (no
\* config file: Defaults::default()), its variables are expanded, and
\* execute_run is called with emit_notifications = true
RunInline(t) ==
    /\ At(t, "run_inline")
    /\ LET a == Fr(t).rt
           r == resolve_inline(a.inline, a.name, a.timeout, a.retries, a.notify_on,
                               cfg.defaults)
       IN threads' =
            IF r.ok
            THEN WithTop(t, [Fr(t) EXCEPT
                    !.name = r.task.name,
                    !.pc = "execute",
                    !.rt = apply_runtime_env(r.task, env.process, env.dotenv)])
            ELSE Return(t, usage(r.err), threads[t].stack)
    /\ UNCHANGED <<env, cfg, history, notified, spawned>>

\* `otto run <task>` on a valid config, or `otto run -- p` where no config file, or
\* one with empty defaults, gives the notification settings (the inline path
\* reads nothing else of the config)
Init ==
    /\ \/ /\ cfg \in Configs
          /\ \E task_name \in {"a", "b", "zz"}, as_json \in BOOLEAN,
                settings \in IF cfg \in LeafConfigs THEN NotificationChoices
                             ELSE {DefaultNotifications} :
               threads = <<Thread(<<[Frame(task_name, "run_named_task", FALSE, as_json, TRUE,
                                           <<>>) EXCEPT !.notifications = settings]>>,
                                  <<>>, FALSE, "")>>
          /\ env \in IF UsesVariables(cfg) THEN EnvChoices ELSE {NoEnv}
       \/ /\ cfg = [defaults |-> NoDefaults, tasks |-> <<>>]
          /\ \E args \in InlineRuns, as_json \in BOOLEAN, settings \in NotificationChoices :
               threads = <<Thread(<<[Frame("", "run_inline", FALSE, as_json, TRUE, args)
                                        EXCEPT !.notifications = settings]>>,
                                  <<>>, FALSE, "")>>
          /\ env = NoEnv
    /\ history = <<>>
    /\ notified = <<>>
    /\ spawned = 0

Next ==
    \/ NextRunner
    \/ \E t \in ThreadIds : RunInline(t)
    \/ \E t \in ThreadIds : CycleDetected(t)
    \/ \E t \in ThreadIds : ResolveFails(t)
    \/ \E t \in ThreadIds : EnterLeaf(t)
    \/ \E t \in ThreadIds : GroupRejectsJson(t)
    \/ \E t \in ThreadIds : EnterGroup(t)
    \/ \E t \in ThreadIds : GroupSeqCall(t)
    \/ \E t \in ThreadIds : GroupSpawn(t)
    \/ \E t \in ThreadIds : GroupJoin(t)
    \/ \E t \in ThreadIds : GroupAppend(t)
    \/ \E t \in ThreadIds : GroupFinish(t)
    \/ \E t \in ThreadIds : LeafAppend(t)
    \/ \E t \in ThreadIds : LeafFinish(t)

Spec == Init /\ [][Next]_vars

----------------------------------------------------------------------------
(* Properties of the cycle check of run_named_task *)

\* the thread of run_run and its call of run_named_task
Main == threads[1]
MainCall == Main.frames[1]

\* `part` occurs in `msg` as a run of consecutive tokens
Contains(msg, part) ==
    \E i \in 0..(Len(msg) - Len(part)) : SubSeq(msg, i + 1, i + Len(part)) = part

\* the config whose task a has the sub-tasks [b] and whose task b has [a]
CycleConfig ==
    /\ DOMAIN cfg.tasks = {"a", "b"}
    /\ cfg.tasks["a"].tasks = <<"b">>
    /\ cfg.tasks["b"].tasks = <<"a">>

\* `otto run a` on that config, without --json (which execute_task_group
\* refuses before it runs any sub-task)
RunsCycleFromA == CycleConfig /\ MainCall.name = "a" /\ ~MainCall.json

CycleReported ==
    /\ Main.state = "done"
    /\ ~Main.result.ok
    /\ Contains(Main.result.msg, <<"task dependency cycle:">>)

\* C10: when a dependency cycle is detected during a run, the failure that
\* reaches the caller of the top-level invocation is a usage failure (exit
\* class 2), not a runtime failure (1) and not 127
C10_CycleIsUsageFailure ==
    CycleReported => Main.result.code = ExitUsage

----------------------------------------------------------------------------
(* Properties of execute_run and execute_task_group *)

\* the messages of the three early returns of execute
ConfigErrorMessages ==
    {<<"retries must be >= 0">>, <<"shell command is required">>,
     <<"exec command is required">>}

\* the run of a leaf task has ended with a request that execute rejected before
\* any attempt
ConfigErrorReported ==
    /\ Main.state = "done"
    /\ ~Main.result.ok
    /\ Main.result.msg \in ConfigErrorMessages

\* C11: a configuration error found before any attempt (negative retries, empty
\* command) reaches the caller as a usage failure (exit class 2), not as a
\* runtime failure
C11_ConfigErrorIsUsageFailure ==
    ConfigErrorReported => Main.result.code = ExitUsage

\* the frames of every thread, as <<thread, depth>> pairs
FramePositions ==
    {<<t, i>> \in (DOMAIN threads) \X (1..MaxThreads) : i <= Len(threads[t].frames)}

\* the frame is a call of execute_task_group for a sequential group
SeqGroupFrame(f) ==
    \/ f.pc \in {"group_seq", "group_wait"}
    \/ /\ f.pc \in {"group_append", "group_finish", "returned"}
       /\ f.called # <<>>
       /\ ~f.rt.parallel

\* `otto run a` on the config where a is the sequential group [b, c] of two leaves
RunsSeqPair ==
    /\ DOMAIN cfg.tasks = {"a", "b", "c"}
    /\ cfg.tasks["a"].tasks = <<"b", "c">>
    /\ ~cfg.tasks["a"].parallel
    /\ cfg.tasks["c"].tasks = <<>>
    /\ MainCall.name = "a" /\ ~MainCall.json

\* C12: a sequential group invokes its sub-tasks in list order, each one only
\* after the previous one has returned, and stops at the first failing one: no
\* later sub-task is invoked, no process of it is spawned, the group is Failed
C12_SequentialOrderAndFailFast ==
    /\ \A p \in FramePositions :
         LET t == p[1]
             i == p[2]
             f == threads[t].frames[i]
             top == i = Len(threads[t].frames)
         IN SeqGroupFrame(f) =>
              \* invoked so far: a prefix of the list, in list order
              /\ f.called = SubSeq(f.rt.sub_tasks, 1, Len(f.called))
              \* the next one is invoked only when no sub-task of the group is under way
              /\ f.pc = "group_seq" => top /\ Len(f.called) = f.idx - 1
              /\ f.pc = "group_wait" =>
                    /\ ~top
                    /\ Len(f.called) = f.idx
                    /\ threads[t].frames[i + 1].name = f.rt.sub_tasks[f.idx]
              \* a failure ends the loop at the sub-task that failed
              /\ f.failures # <<>> =>
                    /\ f.pc \in {"group_append", "group_finish", "returned"}
                    /\ Len(f.failures) = 1
                    /\ Len(f.called) = f.idx
                    /\ f.failures[1][1] = f.rt.sub_tasks[f.idx]
                    /\ GroupRecord(f.rt, f.failures).status = "failed"
    /\ (RunsSeqPair /\ MainCall.failures # <<>> /\ MainCall.called = <<"b">>) =>
          /\ spawned <= 1
          /\ \A k \in 1..Len(history) : history[k].name # "c"
          /\ Main.state = "done" => ~Main.result.ok

\* the sequential group [b, c] has ended after b failed with exit code 7
C12_Witness ==
    /\ RunsSeqPair
    /\ Main.state = "done"
    /\ MainCall.called = <<"b">>
    /\ MainCall.failures = <<<<"b", ":", "command failed with exit code", "7">>>>
    /\ spawned = 1

\* the frame is a call of execute_task_group for a parallel group that has
\* launched units
ParGroupFrame(f) == f.handles # <<>>

\* the frame is past the join loop: the status is computed, the record is being
\* built or appended, the notification sent or the result returned
Aggregating(f) == f.pc \in {"group_append", "group_finish", "returned"} \/ f.appended

\* C13: in a parallel group the aggregation, the record and the return happen
\* only after every launched unit has finished: no state has the group's status,
\* record or notification produced while a unit of the group is still running
C13_JoinBarrierBeforeAggregation ==
    \A p \in FramePositions :
        LET f == threads[p[1]].frames[p[2]] IN
        (ParGroupFrame(f) /\ Aggregating(f)) =>
            /\ Len(f.handles) = Len(f.rt.sub_tasks)
            /\ \A k \in 1..Len(f.handles) : threads[f.handles[k]].state # "running"

\* a parallel group of two sub-tasks has appended its record with both units ended
C13_Witness ==
    /\ ParGroupFrame(MainCall)
    /\ Len(MainCall.handles) = 2
    /\ MainCall.appended
    /\ MainCall.pc = "group_finish"
    /\ \A k \in 1..2 : threads[MainCall.handles[k]].state = "done"

\* the failure messages of the units behind the first n handles, in handle order
RECURSIVE UnitFailures(_, _)
UnitFailures(handles, n) ==
    IF n = 0 THEN <<>>
    ELSE LET th == threads[handles[n]]
             before == UnitFailures(handles, n - 1)
         IN IF th.result.ok THEN before
            ELSE Append(before, <<th.child_name, ":">> \o th.frames[1].exres.message)

\* the unit ran a leaf task to its end: its own call was of execute_run
LeafUnitDone(th) ==
    th.unit /\ th.state = "done" /\ th.frames[1].appended /\ th.frames[1].called = <<>>

\* C14: a parallel group launches one unit per listed sub-task before it waits on
\* any of them, and every unit runs to its own end whatever its siblings do: the
\* outcome of a unit is that of its own process, every failing unit is reported
\* (no fail-fast), and the group is Success when all units succeeded
C14_ParallelUnitsAllRun ==
    /\ \A p \in FramePositions :
         LET f == threads[p[1]].frames[p[2]] IN
         ParGroupFrame(f) =>
           \* launched in list order, all of them before the first join
           /\ \A k \in 1..Len(f.handles) :
                 /\ threads[f.handles[k]].unit
                 /\ threads[f.handles[k]].child_name = f.rt.sub_tasks[k]
           /\ f.pc = "group_spawn" => f.failures = <<>>
           /\ (f.pc = "group_join" \/ Aggregating(f)) =>
                 Len(f.handles) = Len(f.rt.sub_tasks)
           \* every unit that failed is among the failures, whatever came before it
           /\ (Aggregating(f) /\ \A k \in 1..Len(f.handles) :
                                    LeafUnitDone(threads[f.handles[k]])) =>
                 /\ f.failures = UnitFailures(f.handles, Len(f.handles))
                 /\ (GroupRecord(f.rt, f.failures).status = "success") <=>
                       \A k \in 1..Len(f.handles) : threads[f.handles[k]].result.ok
    \* the result of a leaf unit is that of its own process
    /\ \A t \in DOMAIN threads :
         LeafUnitDone(threads[t]) =>
            /\ threads[t].frames[1].ex.made = 1
            /\ threads[t].result.ok <=> SuccessObs(threads[t].frames[1].ex.obs)
            /\ ~threads[t].frames[1].ex.child.kill_called

\* the two units of a parallel group have a running process each at the same
\* time while the group waits in its join loop
C14_Witness ==
    /\ ParGroupFrame(MainCall)
    /\ MainCall.pc = "group_join"
    /\ Len(MainCall.handles) = 2
    /\ \A k \in 1..2 : At(MainCall.handles[k], "wait_child")
    /\ spawned = 2

\* the frame is a call of execute_task_group that has appended its record
GroupFrameAppended(f) == f.called # <<>> /\ f.appended

\* the names of the tasks of the config that are groups
GroupTaskNames == {n \in DOMAIN cfg.tasks : cfg.tasks[n].tasks # <<>>}

\* C15: the record of a group depends only on whether a child failed: Success,
\* exit code 0 and no stderr tail when none did; otherwise Failed, exit code 1
\* (never a child's exit code) and the child failure messages joined with "; ";
\* its name is the group's own task name
C15_GroupRecordIsBinary ==
    /\ \A k \in 1..Len(history) :
         history[k].name \in GroupTaskNames =>
            \/ /\ history[k].status = "success"
               /\ history[k].exit_code = 0
               /\ history[k].stderr_tail = None
            \/ /\ history[k].status = "failed"
               /\ history[k].exit_code = 1
               /\ history[k].stderr_tail.some
    /\ \A p \in FramePositions :
         LET f == threads[p[1]].frames[p[2]] IN
         GroupFrameAppended(f) =>
            \E k \in 1..Len(history) :
               /\ history[k].name = f.name
               /\ (history[k].status = "success") <=> (f.failures = <<>>)
               /\ f.failures # <<>> =>
                     history[k].stderr_tail = Some(JoinWith(f.failures, <<";">>))

\* a parallel group whose two children failed, one with exit code 7 and one
\* killed by a signal, has appended its record
C15_Witness ==
    /\ GroupFrameAppended(MainCall)
    /\ Len(MainCall.failures) = 2
    /\ \E k \in 1..Len(history) :
         /\ history[k].name = MainCall.name
         /\ history[k].exit_code = 1
         /\ history[k].stderr_tail =
              Some(<<"b", ":", "command failed with exit code", "7", ";",
                     "c", ":", "command failed with exit code", "1">>)

\* the top-level invocation runs a group
TopIsGroup == MainCall.called # <<>>

\* C16: during the run of a composed task no sub-task invocation appends a
\* record of its own: only the top-level invocation appends, so the run of a
\* group adds exactly one record, the group's
C16_OnlyTopLevelAppends ==
    TopIsGroup =>
        /\ Len(history) <= 1
        /\ \A k \in 1..Len(history) : history[k].name = MainCall.name
        /\ Main.state = "done" => Len(history) = 1

\* C17: during the run of a composed task no notification is emitted for a
\* sub-task invocation, at whatever depth and in whatever kind of group: at most
\* one notification is emitted per top-level run and it is about the top-level task
C17_NoNotificationForSubTasks ==
    /\ Len(notified) <= 1
    /\ \A k \in 1..Len(notified) : notified[k].name = MainCall.name
    /\ \A p \in FramePositions :
         (p[1] # 1 \/ p[2] # 1) => ~threads[p[1]].frames[p[2]].emit

\* a group with the policy "always" whose two leaf sub-tasks ran and appended
\* their records has ended with the one notification, about the group
C17_Witness ==
    /\ TopIsGroup
    /\ Main.state = "done"
    /\ Len(history) = 3
    /\ Len(notified) = 1
    /\ notified[1].name = MainCall.name
    /\ notified[1].status = "failed"

\* the top-level invocation has reached execution: its task resolved and, for a
\* group, --json was not asked for
ReachedExecution ==
    /\ MainCall.name \in DOMAIN cfg.tasks
    /\ ~(MainCall.name \in GroupTaskNames /\ MainCall.json)

\* the records in the history that carry the name of the top-level task
OwnRecords == {k \in 1..Len(history) : history[k].name = MainCall.name}

\* C18: a top-level invocation that reaches execution appends exactly one record
\* for its own task, whatever the number of attempts of a leaf and also when the
\* run or a child of the group failed; the notification policy is evaluated on
\* that record
C18_ExactlyOneOwnRecord ==
    /\ Cardinality(OwnRecords) <= 1
    /\ (Main.state = "done" /\ ReachedExecution) =>
          /\ Cardinality(OwnRecords) = 1
          /\ MainCall.appended
          /\ \A k \in OwnRecords :
                /\ (history[k].status = "failed") <=> ~Main.result.ok
                /\ Len(notified) =
                     IF should_notify(MainCall.rt.notify_on, history[k].status)
                     THEN 1 ELSE 0

\* a leaf run that made two attempts, both failed, has ended with its one record
C18_Witness ==
    /\ Main.state = "done"
    /\ ReachedExecution
    /\ MainCall.ex.made = 2
    /\ ~Main.result.ok
    /\ Len(history) = 1
    /\ history[1].status = "failed"
    /\ Len(notified) = 1

\* `otto run <group> --json`
JsonGroupRun == MainCall.json /\ MainCall.name \in GroupTaskNames

\* C19: when JSON output is asked for a task that resolves to a group, the
\* invocation is rejected with a usage error before anything else: no sub-task is
\* invoked, no process spawned, no record appended, no notification emitted
C19_JsonGroupRejectedUpFront ==
    JsonGroupRun =>
        /\ Len(threads) = 1
        /\ Len(Main.frames) = 1
        /\ MainCall.called = <<>>
        /\ spawned = 0
        /\ history = <<>>
        /\ notified = <<>>
        /\ Main.state = "done" =>
              /\ ~Main.result.ok
              /\ Main.result.code = ExitUsage
              /\ Main.result.msg = <<"--json is not supported for composed tasks yet">>

\* the run of a group with --json has ended
C19_Witness ==
    /\ JsonGroupRun
    /\ Main.state = "done"
    /\ Main.result.code = ExitUsage
    /\ Main.stack = <<>>

----------------------------------------------------------------------------
(* SpecResolve: Config::resolve_task on task definitions of every shape *)

\* task definitions as the YAML can hold them, validated or not: any of exec,
\* tasks and run may be set together
TaskDefinitions ==
    { [LeafTask EXCEPT !.exec = e, !.tasks = ts, !.run = r, !.parallel = par,
                       !.timeout = to] :
        e \in {<<>>, <<<<"p">>>>, <<<<"p">>, <<"q">>>>},
        ts \in {<<>>, <<"b">>, <<"b", "c">>},
        r \in {<<>>, <<"x">>},
        par \in BOOLEAN,
        to \in {"", "1s", "bad"} }

\* the defaults section, with each field set or not
DefaultsChoices ==
    { [timeout |-> to, retries |-> r, retry_backoff |-> rb, notify_on |-> n] :
        to \in {"", "2s"}, r \in {NoInt, SomeInt(2)}, rb \in {"", "2s"},
        n \in {"", "always"} }

\* one task t with each mergeable field set or not, under each of the defaults
FieldConfigs ==
    { [defaults |-> d,
       tasks |-> [n \in {"t"} |->
                    [LeafTask EXCEPT !.timeout = to, !.retries = r,
                                     !.retry_backoff = rb, !.notify_on = no]]] :
        d \in DefaultsChoices,
        to \in {"", "1s"}, r \in {NoInt, SomeInt(0), SomeInt(3)},
        rb \in {"", "0s"}, no \in {"", "never"} }

\* one task t, with retries inside and outside 0..10 in the task and the defaults
RetriesConfigs ==
    { [defaults |-> [NoDefaults EXCEPT !.retries = dr],
       tasks |-> [n \in {"t"} |-> [LeafTask EXCEPT !.retries = r]]] :
        dr \in {NoInt, SomeInt(-1), SomeInt(10), SomeInt(11)},
        r \in {NoInt, SomeInt(-1), SomeInt(10), SomeInt(11)} }

\* the arguments of `otto run [flags] -- <command>`
InlineArgs ==
    { [inline |-> a, name |-> <<>>, timeout |-> to, retries |-> r, notify_on |-> no] :
        a \in {<<>>, <<<<"p">>>>}, to \in {"", "1s"},
        r \in {NoInt, SomeInt(-1), SomeInt(0), SomeInt(3), SomeInt(11)},
        no \in {"", "never"} }

\* a call of resolve_task(name) is about to be made on a config with the one
\* task t, or a call of resolve_inline on the flags of an inline run
InitResolve ==
    /\ \/ /\ \E task \in TaskDefinitions :
               cfg = [defaults |-> NoDefaults, tasks |-> [n \in {"t"} |-> task]]
          /\ \E name \in {"t", "zz"} :
               threads = <<Thread(<<Frame(name, "resolve_task", FALSE, FALSE, FALSE, <<>>)>>,
                                  <<>>, FALSE, "")>>
       \/ /\ cfg \in FieldConfigs \cup RetriesConfigs
          /\ threads = <<Thread(<<Frame("t", "load", FALSE, FALSE, FALSE, <<>>)>>,
                                <<>>, FALSE, "")>>
       \/ /\ \E d \in DefaultsChoices \cup {[NoDefaults EXCEPT !.retries = SomeInt(11)]} :
               cfg = [defaults |-> d, tasks |-> [n \in {"t"} |-> LeafTask]]
          /\ \E args \in InlineArgs :
               threads = <<Thread(<<Frame("", "load_inline", FALSE, FALSE, TRUE, args)>>,
                                  <<>>, FALSE, "")>>
    /\ history = <<>>
    /\ notified = <<>>
    /\ spawned = 0
    /\ env = NoEnv

\* load_config_classified: config::load validates the parsed config; a config
\* with issues is a usage error, a valid one goes on to the resolution
LoadConfig(t) ==
    /\ At(t, "load") \/ At(t, "load_inline")
    /\ threads' =
         IF validate(cfg)
         THEN WithTop(t, [Fr(t) EXCEPT !.pc = IF Fr(t).pc = "load" THEN "resolve_task"
                                               ELSE "resolve_inline"])
         ELSE [threads EXCEPT ![t] = [@ EXCEPT !.state = "done",
                  !.result = usage(<<"configuration validation failed">>)]]
    /\ UNCHANGED <<env, cfg, history, notified, spawned>>

\* cfg.resolve_task(name) returns: the resolved task is kept in the frame, an
\* error ends the thread with it
ResolveTaskCall(t) ==
    /\ At(t, "resolve_task")
    /\ LET r == resolve_task(cfg, Fr(t).name) IN
       threads' =
         IF r.ok
         THEN WithTop(t, [Fr(t) EXCEPT !.pc = "resolved", !.rt = r.task])
         ELSE [threads EXCEPT ![t] = [@ EXCEPT !.state = "done",
                                              !.result = usage(r.err)]]
    /\ UNCHANGED <<env, cfg, history, notified, spawned>>

\* cfg.resolve_task(name) is called once more for the same name
ResolveTaskAgain(t) ==
    /\ At(t, "resolved")
    /\ LET r == resolve_task(cfg, Fr(t).name) IN
       /\ r.ok
       /\ threads' = [threads EXCEPT ![t].frames =
             Append(@, Frame(Fr(t).name, "resolved_again", FALSE, FALSE, FALSE, r.task))]
    /\ UNCHANGED <<env, cfg, history, notified, spawned>>

\* resolve_inline_run: config::resolve_inline on the flags and the defaults of
\* the config; the resolved task is what execute_run is then called with
ResolveInlineCall(t) ==
    /\ At(t, "resolve_inline")
    /\ LET a == Fr(t).rt
           r == resolve_inline(a.inline, a.name, a.timeout, a.retries, a.notify_on,
                               cfg.defaults)
       IN threads' =
            IF r.ok
            THEN [threads EXCEPT ![t].frames =
                    Append(@, Frame("inline", "resolved_inline", FALSE, FALSE, TRUE, r.task))]
            ELSE [threads EXCEPT ![t] = [@ EXCEPT !.state = "done",
                                                 !.result = usage(r.err)]]
    /\ UNCHANGED <<env, cfg, history, notified, spawned>>

NextResolve ==
    \/ \E t \in ThreadIds : LoadConfig(t)
    \/ \E t \in ThreadIds : ResolveTaskCall(t)
    \/ \E t \in ThreadIds : ResolveInlineCall(t)
    \/ \E t \in ThreadIds : ResolveTaskAgain(t)

SpecResolve == InitResolve /\ [][NextResolve]_vars

\* how many of exec, sub_tasks and shell the resolved task has populated
PopulatedModes(r) ==
    (IF r.exec # <<>> THEN 1 ELSE 0) + (IF r.sub_tasks # <<>> THEN 1 ELSE 0)
        + (IF r.shell # <<>> THEN 1 ELSE 0)

\* the first call of resolve_task has returned a resolved task
Resolved1 ==
    F1.pc = "resolved" \/ (Len(T1.frames) = 2 /\ T1.frames[2].pc = "resolved_again")

\* C20: for a task definition with at least one of exec, tasks, run non-empty,
\* resolve_task populates exactly one of exec, sub_tasks, shell and leaves the
\* other two empty, by the precedence exec over tasks over run, also when several
\* are set; resolving the same definition again gives the same mode and preview
C20_ExactlyOneModeByPrecedence ==
    Resolved1 =>
        LET d == cfg.tasks[F1.name]
            r == F1.rt
        IN /\ (d.exec # <<>> \/ d.tasks # <<>> \/ d.run # <<>>) => PopulatedModes(r) = 1
           /\ d.exec # <<>> =>
                 r.exec = d.exec /\ r.sub_tasks = <<>> /\ r.shell = <<>> /\ ~r.use_shell
           /\ (d.exec = <<>> /\ d.tasks # <<>>) =>
                 r.sub_tasks = d.tasks /\ r.exec = <<>> /\ r.shell = <<>> /\ ~r.use_shell
           /\ (d.exec = <<>> /\ d.tasks = <<>>) =>
                 r.shell = d.run /\ r.exec = <<>> /\ r.sub_tasks = <<>> /\ r.use_shell
           /\ Len(T1.frames) = 2 =>
                 /\ T1.frames[2].rt.exec = r.exec
                 /\ T1.frames[2].rt.sub_tasks = r.sub_tasks
                 /\ T1.frames[2].rt.shell = r.shell
                 /\ T1.frames[2].rt.use_shell = r.use_shell
                 /\ T1.frames[2].rt.command_preview = r.command_preview

\* a definition with exec, tasks and run all set has been resolved twice: to exec
C20_Witness ==
    /\ Len(T1.frames) = 2
    /\ cfg.tasks["t"].exec = <<<<"p">>, <<"q">>>>
    /\ cfg.tasks["t"].tasks = <<"b", "c">>
    /\ cfg.tasks["t"].run = <<"x">>
    /\ F1.rt.exec = <<<<"p">>, <<"q">>>>
    /\ F1.rt.command_preview = <<"p", " ", "q">>

\* the merge rule: the primary value when set, else the fallback when set, else
\* the constant
Merged(primary_set, primary, fallback_set, fallback, constant) ==
    IF primary_set THEN primary ELSE IF fallback_set THEN fallback ELSE constant

\* the durations the texts of the model stand for
DurationOf(text) == parse_duration(text).val

\* resolve_inline has returned a resolved task
ResolvedInline1 == Len(T1.frames) = 2 /\ T1.frames[2].pc = "resolved_inline"

\* C21: for timeout, retries, retry_backoff and notify_on resolve_task takes the
\* task-level value when set (an explicit retries of 0 included), else the
\* default when set, else the constant (0, 0, 1 s, "failure"); resolve_inline
\* does the same with the flags in the place of the task-level values
C21_MergePolicy ==
    /\ Resolved1 =>
         LET d == cfg.tasks[F1.name]
             df == cfg.defaults
             r == F1.rt
         IN /\ r.timeout = Merged(d.timeout # "", DurationOf(d.timeout),
                                  df.timeout # "", DurationOf(df.timeout), Dur(0))
            /\ r.retries = Merged(d.retries.some, d.retries.val,
                                  df.retries.some, df.retries.val, 0)
            /\ r.retry_backoff = Merged(d.retry_backoff # "", DurationOf(d.retry_backoff),
                                        df.retry_backoff # "",
                                        DurationOf(df.retry_backoff), Dur(1000))
            /\ r.notify_on = Merged(d.notify_on # "", d.notify_on,
                                    df.notify_on # "", df.notify_on, "failure")
    /\ ResolvedInline1 =>
         LET a == F1.rt
             df == cfg.defaults
             r == T1.frames[2].rt
         IN /\ r.timeout = Merged(a.timeout # "", DurationOf(a.timeout),
                                  df.timeout # "", DurationOf(df.timeout), Dur(0))
            /\ r.retries = Merged(a.retries.some, a.retries.val,
                                  df.retries.some, df.retries.val, 0)
            /\ r.retry_backoff = Merged(FALSE, Dur(0), df.retry_backoff # "",
                                        DurationOf(df.retry_backoff), Dur(1000))
            /\ r.notify_on = Merged(a.notify_on # "", a.notify_on,
                                    df.notify_on # "", df.notify_on, "failure")

\* a task with retries: 0 and nothing else set, under defaults with retries 2 and
\* timeout 2s, has resolved to retries 0, timeout 2 s, backoff 1 s, "failure"
C21_Witness ==
    /\ Resolved1
    /\ cfg.tasks["t"].retries = SomeInt(0)
    /\ cfg.defaults.retries = SomeInt(2)
    /\ cfg.defaults.timeout = "2s"
    /\ F1.rt.retries = 0
    /\ F1.rt.timeout = Dur(2000)
    /\ F1.rt.retry_backoff = Dur(1000)
    /\ F1.rt.notify_on = "failure"

\* retries is set outside 0..10 in the defaults or in a task of the config
RetriesOutOfRange(c) ==
    \/ c.defaults.retries.some /\ c.defaults.retries.val \notin 0..10
    \/ \E n \in DOMAIN c.tasks :
          c.tasks[n].retries.some /\ c.tasks[n].retries.val \notin 0..10

\* the thread has ended with a usage error and nothing was resolved
RejectedAsUsage ==
    /\ T1.state = "done"
    /\ ~T1.result.ok
    /\ T1.result.code = ExitUsage
    /\ Len(T1.frames) = 1
    /\ F1.pc \notin {"resolved", "resolved_inline"}

\* C22: every resolved task handed to the retry controller has retries in
\* [0,10], so between 1 and 11 attempts: loading rejects a config whose defaults
\* or tasks set retries outside [0,10], and resolve_inline rejects an inline
\* invocation whose effective retries (flag, else default) is outside [0,10]
C22_RetriesWithinBounds ==
    /\ Resolved1 =>
          /\ F1.rt.retries \in 0..10
          /\ Attempts(F1.rt) \in 1..11
    /\ ResolvedInline1 =>
          /\ T1.frames[2].rt.retries \in 0..10
          /\ Attempts(T1.frames[2].rt) \in 1..11
    /\ (RetriesOutOfRange(cfg) /\ F1.pc \notin {"load", "load_inline"}) => RejectedAsUsage
    /\ (F1.pc \in {"resolve_inline"} /\ F1.rt.retries.some
            /\ F1.rt.retries.val \notin 0..10 /\ T1.state = "done") => RejectedAsUsage
    /\ (F1.pc \in {"resolve_inline"} /\ F1.rt.retries.some
            /\ F1.rt.retries.val \notin 0..10) => Len(T1.frames) = 1

\* an inline invocation with --retries 11 on valid defaults has been rejected by
\* resolve_inline
C22_Witness ==
    /\ F1.pc = "resolve_inline"
    /\ F1.rt.inline # <<>>
    /\ F1.rt.retries = SomeInt(11)
    /\ T1.state = "done"
    /\ T1.result = usage(<<"inline retries must be between 0 and 10">>)

----------------------------------------------------------------------------
(* SpecExpand: apply_runtime_env and expand_variables on commands of every shape *)

MaxValueLen == 4

\* the characters of the commands: the three of the reference syntax, a letter,
\* a digit and one that is neither
ValueChars == {"$", "{", "}", "N", "1", "-"}

Values == UNION {[1..n -> ValueChars] : n \in 0..MaxValueLen}

\* the commands that hold the character é, next to the reference syntax
AccentedValues ==
    {v \in UNION {[1..n -> {"é", "$", "{", "}", "N"}] : n \in 1..MaxValueLen} :
        \E i \in 1..Len(v) : v[i] = "é"}

\* process environments: N absent, set, set to the empty string, set to a text
\* that itself looks like a reference
ProcessEnvs ==
    {EmptyMap} \cup {[k \in {<<"N">>} |-> v] : v \in {<<"v">>, <<>>, <<"$", "N">>}}

\* the task t whose command holds the value: as the shell text of run, or as the
\* second token of exec
CommandWith(value, as_exec) ==
    IF as_exec THEN [LeafTask EXCEPT !.exec = <<<<"p">>, value>>]
    ELSE [LeafTask EXCEPT !.exec = <<>>, !.run = value]

\* the keys and values of the layering cases: a process value, a dotenv value,
\* and task env values that are a literal or a reference to a key
LayerKeys == {<<"A">>, <<"B">>}

MapsOver(values) == UNION {[keys -> values] : keys \in SUBSET LayerKeys}

\* the task t that runs `p $A $B` with its own env map
LayeredTask(task_env) ==
    [LeafTask EXCEPT !.exec = <<<<"p">>, <<"$", "A">>, <<"$", "B">>>>, !.env = task_env]

\* run_named_task has resolved the leaf task t and is about to call
\* apply_runtime_env on it
InitExpand ==
    /\ \/ /\ \E value \in Values \cup AccentedValues, as_exec \in BOOLEAN :
                cfg = [defaults |-> NoDefaults,
                       tasks |-> [n \in {"t"} |-> CommandWith(value, as_exec)]]
          /\ \E process_env \in ProcessEnvs :
                env = [process |-> process_env, dotenv |-> EmptyMap]
       \/ /\ \E task_env \in MapsOver({<<"t">>, <<"$", "A">>, <<"$", "B">>}) :
                cfg = [defaults |-> NoDefaults,
                       tasks |-> [n \in {"t"} |-> LayeredTask(task_env)]]
          /\ \E process_env \in MapsOver({<<"p">>}), dotenv_vars \in MapsOver({<<"d">>}) :
                env = [process |-> process_env, dotenv |-> dotenv_vars]
    /\ threads = <<Thread(<<Frame("t", "apply_runtime_env", FALSE, FALSE, TRUE,
                                  resolve_task(cfg, "t").task)>>,
                          <<"t">>, FALSE, "")>>
    /\ history = <<>>
    /\ notified = <<>>
    /\ spawned = 0

\* apply_runtime_env(&mut runnable, dotenv_vars); execute_run is called with the result
ApplyRuntimeEnv(t) ==
    /\ At(t, "apply_runtime_env")
    /\ threads' = [threads EXCEPT ![t].frames =
          Append(@, Frame(Fr(t).name, "execute_run", FALSE, FALSE, TRUE,
                          apply_runtime_env(Fr(t).rt, env.process, env.dotenv)))]
    /\ UNCHANGED <<env, cfg, history, notified, spawned>>

NextExpand == \E t \in ThreadIds : ApplyRuntimeEnv(t)

SpecExpand == InitExpand /\ [][NextExpand]_vars

\* apply_runtime_env has returned
Applied1 == Len(T1.frames) = 2 /\ T1.frames[2].pc = "execute_run"

\* it has returned for a command of Values: a shell text, or the exec token
\* after p
Expanded1 ==
    /\ Applied1 /\ Len(F1.rt.exec) < 3
    /\ (IF F1.rt.use_shell THEN F1.rt.shell ELSE F1.rt.exec[2]) \in Values

\* the command text before and after the expansion
TextBefore == IF F1.rt.use_shell THEN F1.rt.shell ELSE F1.rt.exec[2]
TextAfter ==
    IF T1.frames[2].rt.use_shell THEN T1.frames[2].rt.shell ELSE T1.frames[2].rt.exec[2]

HasNo(text, ch) == \A i \in 1..Len(text) : text[i] # ch

\* what a reference to `name` must become under the lookup
Expected(name, lookup) ==
    IF name \in DOMAIN lookup THEN lookup[name] ELSE <<"$", "{">> \o name \o <<"}">>

\* a name of the $NAME form: a letter or '_' first, then letters, digits or '_'
IsName(s) ==
    /\ s # <<>>
    /\ s[1] \in {"N", "_"}
    /\ \A i \in 2..Len(s) : s[i] \in {"N", "1", "_"}

\* C23: expansion never drops a reference: a ${NAME} or $NAME whose name is in
\* the lookup becomes exactly the lookup value, one whose name is not becomes
\* ${NAME} (so ${N} stays ${N}), the text around it is kept, and the command
\* preview that goes into the record is the expanded form
C23_ExpansionKeepsReferences ==
    Expanded1 =>
        LET v == TextBefore
            o == TextAfter
            after == T1.frames[2].rt
        IN /\ HasNo(v, "$") => o = v
           /\ \A a \in 1..Len(v), b \in 1..Len(v) :
                 \* v = pre ${ key } suf with the reference at a..b
                 ( /\ a + 2 <= b
                   /\ v[a] = "$" /\ v[a + 1] = "{" /\ v[b] = "}"
                   /\ HasNo(SubSeq(v, 1, a - 1), "$")
                   /\ HasNo(SubSeq(v, a + 2, b - 1), "}")
                   /\ HasNo(SubSeq(v, b + 1, Len(v)), "$") )
                 => o = SubSeq(v, 1, a - 1)
                          \o Expected(SubSeq(v, a + 2, b - 1), env.process)
                          \o SubSeq(v, b + 1, Len(v))
           /\ \A a \in 1..Len(v), b \in 1..Len(v) :
                 \* v = pre $NAME suf with the name at a+1..b
                 ( /\ a < b
                   /\ v[a] = "$"
                   /\ IsName(SubSeq(v, a + 1, b))
                   /\ (b < Len(v) => v[b + 1] \notin {"N", "1", "_"})
                   /\ HasNo(SubSeq(v, 1, a - 1), "$")
                   /\ HasNo(SubSeq(v, b + 1, Len(v)), "$") )
                 => o = SubSeq(v, 1, a - 1)
                          \o Expected(SubSeq(v, a + 1, b), env.process)
                          \o SubSeq(v, b + 1, Len(v))
           /\ after.command_preview =
                 IF after.use_shell THEN o ELSE <<"p", " ">> \o o
           /\ LeafRecord(after, failed_result(1, None)).command_preview
                 = after.command_preview

\* the shell command ${N} with N not in the environment has been expanded: it
\* stays ${N}
C23_Witness ==
    /\ Expanded1
    /\ F1.rt.use_shell
    /\ TextBefore = <<"$", "{", "N", "}">>
    /\ env.process = EmptyMap
    /\ TextAfter = <<"$", "{", "N", "}">>
    /\ T1.frames[2].rt.command_preview = <<"$", "{", "N", "}">>

\* apply_runtime_env has returned for the task that runs `p $A $B`
Layered1 == Applied1 /\ Len(F1.rt.exec) = 3

\* what the process environment and the dotenv file alone give for a key
BaseValue(k) ==
    IF k \in DOMAIN env.process THEN env.process[k]
    ELSE IF k \in DOMAIN env.dotenv THEN env.dotenv[k]
    ELSE <<"$", "{">> \o k \o <<"}">>

\* what the command sees for a key: the expansion of its $A or $B token
Seen(k) == IF k = <<"A">> THEN T1.frames[2].rt.exec[2] ELSE T1.frames[2].rt.exec[3]

\* C24: the lookup and the additions passed to the child are layered: a dotenv
\* value is used, and added, only for a key the process environment lacks; a key
\* of the task's env overrides both, for the command and for the child
C24_EnvLayering ==
    Layered1 =>
        LET task_env == F1.rt.env
            additions == T1.frames[2].rt.env
        IN /\ DOMAIN additions =
                 DOMAIN task_env \cup (DOMAIN env.dotenv \ DOMAIN env.process)
           /\ \A k \in LayerKeys \ DOMAIN task_env :
                 /\ Seen(k) = BaseValue(k)
                 /\ k \in DOMAIN additions => additions[k] = env.dotenv[k]
                 /\ k \in DOMAIN env.process => Seen(k) = env.process[k]
           /\ \A k \in DOMAIN task_env :
                 /\ Seen(k) = additions[k]
                 /\ task_env[k] = <<"t">> => additions[k] = <<"t">>
           \* a task value that refers to a key: the key's own task value is in
           \* the lookup only once the sorted loop has passed it
           /\ \A k \in DOMAIN task_env :
                 /\ task_env[k] = <<"$", "B">> => additions[k] = BaseValue(<<"B">>)
                 /\ (k = <<"A">> /\ task_env[k] = <<"$", "A">>)
                        => additions[k] = BaseValue(<<"A">>)
                 /\ (k = <<"B">> /\ task_env[k] = <<"$", "A">>)
                        => additions[k] = Seen(<<"A">>)

\* A is in the process environment, the dotenv file and the task's env, B in the
\* process environment and the dotenv file only: the command sees the task's
\* value for A and the process value for B, and only A is added for the child
C24_Witness ==
    /\ Layered1
    /\ env.process = [k \in LayerKeys |-> <<"p">>]
    /\ env.dotenv = [k \in LayerKeys |-> <<"d">>]
    /\ F1.rt.env = [k \in {<<"A">>} |-> <<"t">>]
    /\ Seen(<<"A">>) = <<"t">>
    /\ Seen(<<"B">>) = <<"p">>
    /\ T1.frames[2].rt.env = [k \in {<<"A">>} |-> <<"t">>]

----------------------------------------------------------------------------
(* SpecTail: runner::tail on stderr texts of every shape *)

MaxTailLen == 4

TailTexts == UNION {[1..n -> {"a", NL, CR}] : n \in 0..MaxTailLen}

\* the text of the test tail_limits_output
SixLines == <<"a", NL, "b", NL, "c", NL, "d", NL, "e", NL, "f">>

\* the limits of a call: small ones, and those of run_once
TailCall(input, line_limit, char_limit) ==
    [input |-> input, line_limit |-> line_limit, char_limit |-> char_limit]

TailCalls ==
    {TailCall(input, line_limit, char_limit) :
        input \in TailTexts, line_limit \in {1, 2, TailLines}, char_limit \in {1, 3, TailChars}}
    \cup {TailCall(SixLines, 3, 10)}

\* a call of tail is about to be made
InitTail ==
    /\ cfg = [defaults |-> NoDefaults, tasks |-> <<>>]
    /\ \E call \in TailCalls :
         threads = <<Thread(<<Frame("tail", "tail", FALSE, FALSE, FALSE, call)>>,
                            <<>>, FALSE, "")>>
    /\ history = <<>>
    /\ notified = <<>>
    /\ spawned = 0
    /\ env = NoEnv

\* let stderr_tail = tail(&stderr_text, 10, 1400);
ComputeTail(t) ==
    /\ At(t, "tail")
    /\ threads' = WithTop(t, [Fr(t) EXCEPT
          !.pc = "tailed",
          !.exres = tail(Fr(t).rt.input, Fr(t).rt.line_limit, Fr(t).rt.char_limit)])
    /\ UNCHANGED <<env, cfg, history, notified, spawned>>

NextTail == \E t \in ThreadIds : ComputeTail(t)

SpecTail == InitTail /\ [][NextTail]_vars

Tailed1 == F1.pc = "tailed"

\* the number of lines of a text
LineCount(s) ==
    IF s = <<>> THEN 0 ELSE 1 + Cardinality({i \in 1..Len(s) : s[i] = NL})

IsSuffixOf(s, whole) ==
    /\ Len(s) <= Len(whole)
    /\ s = SubSeq(whole, Len(whole) - Len(s) + 1, Len(whole))

\* C25: tail returns nothing for an empty or all-newline input; otherwise a text
\* of at most line_limit lines and at most char_limit characters that is a
\* suffix of the input without its trailing newlines; and
\* tail("a\nb\nc\nd\ne\nf", 3, 10) is "d\ne\nf"
C25_TailIsBoundedSuffix ==
    Tailed1 =>
        LET input == F1.rt.input
            trimmed == TrimEndNewlines(input)
            result == F1.exres
        IN /\ (\A i \in 1..Len(input) : input[i] = NL) <=> result = None
           /\ result # None =>
                 \E out \in {SubSeq(trimmed, i, Len(trimmed)) : i \in 1..(Len(trimmed) + 1)} :
                    /\ result = Some(out)
                    /\ LineCount(out) <= F1.rt.line_limit
                    /\ Len(out) <= F1.rt.char_limit
           /\ (input = SixLines /\ F1.rt.line_limit = 3 /\ F1.rt.char_limit = 10)
                 => result = Some(<<"d", NL, "e", NL, "f">>)

\* the same statement, for the texts that hold no carriage return
C25_HoldsWithoutCarriageReturn ==
    (Tailed1 /\ HasNo(F1.rt.input, CR)) => C25_TailIsBoundedSuffix

----------------------------------------------------------------------------
(* SpecHistory: history::Store write by write.  Here `history` is the file: *)
(* whether it exists, and the chunks the write calls have appended to it.   *)

\* serde_json::to_vec(record): the JSON text of a record, without a newline
JsonLine(record) == [kind |-> "json", record |-> record]

\* the other chunks a file can hold: "\n", whitespace, and text that is not the
\* JSON of a record
Newline == [kind |-> "newline"]
Blank == [kind |-> "blank"]
Garbage == [kind |-> "garbage"]

\* BufRead::lines: the chunks between the newlines; a last line needs no newline
RECURSIVE FileLines(_, _)
FileLines(bytes, cur) ==
    IF bytes = <<>> THEN (IF cur = <<>> THEN <<>> ELSE <<cur>>)
    ELSE IF Head(bytes) = Newline THEN <<cur>> \o FileLines(Tail(bytes), <<>>)
    ELSE FileLines(Tail(bytes), Append(cur, Head(bytes)))

\* str::trim
RECURSIVE Trim(_)
Trim(line) ==
    IF line = <<>> THEN line
    ELSE IF Head(line) = Blank THEN Trim(Tail(line))
    ELSE IF line[Len(line)] = Blank THEN Trim(SubSeq(line, 1, Len(line) - 1))
    ELSE line

\* serde_json::from_str::<RunRecord>: one JSON value and nothing after it
from_str(text) ==
    IF Len(text) = 1 /\ text[1].kind = "json" THEN Some(text[1].record) ELSE None

\* history::matches_filter
matches_filter(record, filter) ==
    /\ filter.status.some => record.status = filter.status.val
    /\ filter.source.some => record.source = filter.source.val

\* the loop of Store::list over the lines
RECURSIVE ListLoop(_, _)
ListLoop(lines, filter) ==
    IF lines = <<>> THEN <<>>
    ELSE LET trimmed == Trim(Head(lines))
             rec == from_str(trimmed)
             rest == ListLoop(Tail(lines), filter)
         IN IF trimmed = <<>> THEN rest
            ELSE IF ~rec.some THEN rest
            ELSE IF ~matches_filter(rec.val, filter) THEN rest
            ELSE <<rec.val>> \o rest

Reverse(s) == [i \in 1..Len(s) |-> s[Len(s) + 1 - i]]

\* a list that cuts to the limit before it reverses: it keeps the oldest records
list_limit_before_reverse(file, filter) ==
    IF ~file.exists THEN <<>>
    ELSE LET records == ListLoop(FileLines(file.bytes, <<>>), filter)
         IN IF filter.limit.some /\ Len(records) > filter.limit.val
            THEN Reverse(SubSeq(records, 1, filter.limit.val))
            ELSE Reverse(records)

\* history::Store::list
list(file, filter) ==
    IF ~file.exists THEN <<>>
    ELSE LET records == Reverse(ListLoop(FileLines(file.bytes, <<>>), filter))
         IN IF filter.limit.some /\ Len(records) > filter.limit.val
            THEN SubSeq(records, 1, filter.limit.val)
            ELSE records

\* a record of an earlier inline run, and the records of the two units of a
\* parallel group
OldRecord == RunRecord("old", "inline", <<"p">>, 1, "failed", None)
UnitRecords ==
    <<RunRecord("b", "task", <<"p">>, 0, "success", None),
      RunRecord("c", "task", <<"p">>, 7, "failed", Some(<<"e">>))>>

\* the file before the run: missing, empty, or holding lines
Files ==
    {[exists |-> FALSE, bytes |-> <<>>]}
    \cup {[exists |-> TRUE, bytes |-> bytes] :
            bytes \in {<<>>,
                       <<JsonLine(OldRecord), Newline>>,
                       <<Garbage, Newline, JsonLine(OldRecord), Newline>>,
                       <<Blank, Newline, Newline, Blank, JsonLine(OldRecord), Blank, Newline>>}}

Filters ==
    [limit : {NoInt, SomeInt(0), SomeInt(1), SomeInt(2)},
     status : {None, Some("failed")},
     source : {None, Some("task")}]

NoFilter == [limit |-> NoInt, status |-> None, source |-> None]

\* thread 1 will list the history; threads 2 and 3 are the units of a parallel
\* group, each about to append its record (the frame's rt holds the filter, or
\* the record)
InitHistory ==
    /\ cfg = [defaults |-> NoDefaults, tasks |-> <<>>]
    /\ \E filter \in Filters :
         threads = <<Thread(<<Frame("history", "list", FALSE, FALSE, FALSE, filter)>>,
                            <<>>, FALSE, "")>>
                   \o [u \in 1..2 |->
                        Thread(<<Frame(UnitRecords[u].name, "append", FALSE, FALSE, FALSE,
                                       UnitRecords[u])>>,
                               <<>>, TRUE, UnitRecords[u].name)]
    /\ history \in Files
    /\ notified = <<>>
    /\ spawned = 0
    /\ env = NoEnv

\* Store::append up to the open: create_dir_all and open(create, append); either
\* can fail, and then nothing is written
AppendOpen(t) ==
    /\ At(t, "append")
    /\ \/ /\ history' = [history EXCEPT !.exists = TRUE]
          /\ threads' = WithTop(t, [Fr(t) EXCEPT !.pc = "write_line"])
       \/ /\ threads' = WithTop(t, [Fr(t) EXCEPT !.pc = "append_failed"])
          /\ UNCHANGED history
    /\ UNCHANGED <<env, cfg, notified, spawned>>

\* file.write_all(&line): the file is opened in append mode, the write lands at
\* its end
WriteLine(t) ==
    /\ At(t, "write_line")
    /\ history' = [history EXCEPT !.bytes = Append(@, JsonLine(Fr(t).rt))]
    /\ threads' = WithTop(t, [Fr(t) EXCEPT !.pc = "write_newline"])
    /\ UNCHANGED <<env, cfg, notified, spawned>>

\* file.write_all(b"\n")
WriteNewline(t) ==
    /\ At(t, "write_newline")
    /\ history' = [history EXCEPT !.bytes = Append(@, Newline)]
    /\ threads' = WithTop(t, [Fr(t) EXCEPT !.pc = "appended"])
    /\ UNCHANGED <<env, cfg, notified, spawned>>

\* Store::list; `called` keeps the file as the call read it
ListHistory(t) ==
    /\ At(t, "list")
    /\ threads' = WithTop(t, [Fr(t) EXCEPT !.pc = "listed",
                                            !.exres = list(history, Fr(t).rt),
                                            !.called = history])
    /\ UNCHANGED <<env, cfg, history, notified, spawned>>

NextHistory ==
    \E t \in ThreadIds :
        \/ AppendOpen(t)
        \/ WriteLine(t)
        \/ WriteNewline(t)
        \/ ListHistory(t)

SpecHistory == InitHistory /\ [][NextHistory]_vars

\* C26: every record whose append has returned is one intact line of the file
\* (its JSON between two line boundaries) and is returned by a list without
\* filters, however the appends of the units interleave
C26_AppendedRecordIsIntactLine ==
    \A t \in DOMAIN threads :
        (threads[t].frames[1].pc = "appended") =>
            LET record == threads[t].frames[1].rt
                bytes == history.bytes
            IN /\ \E i \in 1..(Len(bytes) - 1) :
                     /\ bytes[i] = JsonLine(record)
                     /\ i = 1 \/ bytes[i - 1] = Newline
                     /\ bytes[i + 1] = Newline
               /\ \E n \in 1..Len(list(history, NoFilter)) :
                     list(history, NoFilter)[n] = record

\* the state the interleaved writes end in: both units have appended, and
\* neither record is returned by a list
BothRecordsLost ==
    /\ \A t \in 2..3 : threads[t].frames[1].pc = "appended"
    /\ \A n \in 1..Len(list(history, NoFilter)) :
          list(history, NoFilter)[n] \notin {UnitRecords[1], UnitRecords[2]}

\* Store::list has returned in thread 1
Listed1 == F1.pc = "listed"

\* the positions of the file, as list read it, that hold a well-formed record
\* line matching the filter: a JSON chunk with only whitespace between it and
\* the line boundaries on both sides
MatchingPositions ==
    LET bytes == F1.called.bytes
        filter == F1.rt
        Boundary(j) == j = 0 \/ j = Len(bytes) + 1 \/ bytes[j] = Newline
    IN {i \in 1..Len(bytes) :
          /\ bytes[i].kind = "json"
          /\ \E j \in 0..(i - 1) :
                Boundary(j) /\ \A k \in (j + 1)..(i - 1) : bytes[k] = Blank
          /\ \E j \in (i + 1)..(Len(bytes) + 1) :
                Boundary(j) /\ \A k \in (i + 1)..(j - 1) : bytes[k] = Blank
          /\ filter.status = None \/ filter.status = Some(bytes[i].record.status)
          /\ filter.source = None \/ filter.source = Some(bytes[i].record.source)}

\* C27: list returns exactly the well-formed records of the file that match the
\* status and source filters, the most recently appended first, cut to the
\* first `limit` of them; malformed and blank lines are skipped, and a missing
\* file gives the empty list
C27_ListNewestFirstFilteredThenLimited ==
    Listed1 =>
        LET rows == F1.exres
            bytes == F1.called.bytes
            limit == F1.rt.limit
        IN /\ ~F1.called.exists => rows = <<>>
           /\ Len(rows) = IF limit.some /\ limit.val < Cardinality(MatchingPositions)
                          THEN limit.val ELSE Cardinality(MatchingPositions)
           /\ \A n \in 1..Len(rows) :
                 \E p \in MatchingPositions :
                    /\ rows[n] = bytes[p].record
                    /\ Cardinality({q \in MatchingPositions : q > p}) = n - 1

\* the file held a malformed line and the old record, both units appended after
\* it, and a list of the failed records with limit 2 returned the record of c
\* and then the old one
C27_Witness ==
    /\ Listed1
    /\ F1.rt = [limit |-> SomeInt(2), status |-> Some("failed"), source |-> None]
    /\ F1.called.bytes = <<Garbage, Newline, JsonLine(OldRecord), Newline,
                           JsonLine(UnitRecords[1]), Newline,
                           JsonLine(UnitRecords[2]), Newline>>
    /\ F1.exres = <<UnitRecords[2], OldRecord>>

\* a list of a file that does not exist has returned the empty list
MissingFileListed ==
    /\ Listed1
    /\ ~F1.called.exists
    /\ F1.exres = <<>>

----------------------------------------------------------------------------
(* Properties of the notification policy *)

\* the top-level invocation has appended its record and returned
TopFinished == Main.state = "done" /\ MainCall.appended

\* a notification for the top-level invocation has been emitted
TopNotified == \E k \in 1..Len(notified) : notified[k].name = MainCall.name

\* the status of the record of the top-level invocation
TopStatus == history[CHOOSE k \in 1..Len(history) : history[k].name = MainCall.name].status

\* C28: for a top-level invocation a notification is emitted iff the resolved
\* policy is "always", or it is "failure" and the run failed; never with
\* "never", and not with "failure" for a successful run
C28_NotifiedIffPolicySaysSo ==
    TopFinished =>
        /\ TopNotified <=>
              \/ MainCall.rt.notify_on = "always"
              \/ MainCall.rt.notify_on = "failure" /\ TopStatus = "failed"
        /\ MainCall.rt.notify_on = "never" => ~TopNotified
        /\ (MainCall.rt.notify_on = "failure" /\ TopStatus = "success") => ~TopNotified

\* the same statement, for the invocations whose resolved policy is one of
\* never, failure, always
C28_HoldsForValidPolicies ==
    (TopFinished /\ MainCall.rt.notify_on \in VALID_NOTIFY_ON)
        => C28_NotifiedIffPolicySaysSo

\* C29: the two channels are attempted independently: a disabled channel is not
\* attempted, an enabled one is, also the webhook after a failed desktop
\* notification; and the outcome of the channels changes nothing else: the
\* record is appended before, and the result returned is that of the run
C29_ChannelsIndependentAndNeverFatal ==
    /\ \A k \in 1..Len(notified) :
          /\ notified[k].desktop = "skipped" <=> ~MainCall.notifications.desktop_enabled
          /\ notified[k].webhook = "skipped" <=> MainCall.notifications.webhook_url = ""
          /\ TopNotified /\ MainCall.appended
    /\ (TopFinished /\ TopNotified) =>
          /\ Cardinality(OwnRecords) = 1
          /\ Main.result.ok <=> TopStatus = "success"
          /\ ~Main.result.ok => Main.result.code = ExitRuntime

\* the desktop notification failed, the webhook was still attempted and failed
\* too, and the run that succeeded has returned success with its record appended
C29_Witness ==
    /\ TopFinished
    /\ Len(notified) = 1
    /\ notified[1].desktop = "failed"
    /\ notified[1].webhook = "failed"
    /\ notified[1].warned
    /\ Main.result = Ok
    /\ TopStatus = "success"

----------------------------------------------------------------------------
(* SpecPanics: the orchestrator where the thread of a unit can panic *)

\* the closure given to thread::spawn panics somewhere in run_named_task: the
\* thread ends there, unwinding drops its calls, and none of its pending steps
\* is taken
UnitPanics(t) ==
    /\ t \in DOMAIN threads
    /\ threads[t].unit
    /\ threads[t].state = "running"
    /\ threads' = [threads EXCEPT ![t] =
          [@ EXCEPT !.state = "panicked",
                    !.stack = <<>>,
                    !.frames = <<Frame(@[1].name, "panicked", FALSE, FALSE, FALSE, <<>>)>>]]
    /\ UNCHANGED <<env, cfg, history, notified, spawned>>

\* `otto run a` where a is the parallel group of the leaves b and c
InitPanics ==
    /\ \E notify_on \in {"", "always"} :
          cfg = ConfigOf([n \in {"a", "b", "c"} |-> IF n = "a" THEN <<"b", "c">> ELSE <<>>],
                         [n \in {"a", "b", "c", "d"} |-> n = "a"], notify_on)
    /\ threads = <<Thread(<<Frame("a", "run_named_task", FALSE, FALSE, TRUE, <<>>)>>,
                          <<>>, FALSE, "")>>
    /\ history = <<>>
    /\ notified = <<>>
    /\ spawned = 0
    /\ env = NoEnv

\* the steps of such a run (its leaves have no timeout and no retries), and the
\* panic of a unit
NextPanics ==
    \/ \E t \in ThreadIds : EnterGroup(t)
    \/ \E t \in ThreadIds : GroupSpawn(t)
    \/ \E t \in ThreadIds : EnterLeaf(t)
    \/ \E t \in ThreadIds : ExecuteEnter(t)
    \/ \E t \in ThreadIds : SpawnFails(t)
    \/ \E t \in ThreadIds : SpawnChild(t)
    \/ \E t \in ThreadIds : ChildRuns(t)
    \/ \E t \in ThreadIds : ChildExits(t)
    \/ \E t \in ThreadIds : ExecuteFails(t)
    \/ \E t \in ThreadIds : LeafAppend(t)
    \/ \E t \in ThreadIds : LeafFinish(t)
    \/ \E t \in ThreadIds : UnitPanics(t)
    \/ \E t \in ThreadIds : GroupJoin(t)
    \/ \E t \in ThreadIds : GroupAppend(t)
    \/ \E t \in ThreadIds : GroupFinish(t)

SpecPanics == InitPanics /\ [][NextPanics]_vars

\* the handles of the frame whose unit panicked
PanickedHandles(f) == {k \in 1..Len(f.handles) : threads[f.handles[k]].state = "panicked"}

\* the handles of the frame whose unit ended in a failure of its own
FailedHandles(f) ==
    {k \in 1..Len(f.handles) :
        threads[f.handles[k]].state = "done" /\ ~threads[f.handles[k]].result.ok}

\* C30: a unit of a parallel group that panics becomes one failure message of
\* the group: the group still joins every unit, is not crashed itself, and with
\* a panicked unit it aggregates to Failed, appends that record and returns a
\* failure
C30_PanickedUnitIsOneFailure ==
    /\ \A t \in DOMAIN threads : threads[t].state = "panicked" => threads[t].unit
    /\ \A p \in FramePositions :
         LET f == threads[p[1]].frames[p[2]]
             owner == threads[p[1]]
             record == GroupRecord(f.rt, f.failures)
         IN (ParGroupFrame(f) /\ Aggregating(f)) =>
              \* every unit was joined, the panicked and the others
              /\ Len(f.handles) = Len(f.rt.sub_tasks)
              /\ \A k \in 1..Len(f.handles) : threads[f.handles[k]].state # "running"
              \* one message per panicked unit and one per failed unit
              /\ Cardinality({i \in 1..Len(f.failures) :
                                 f.failures[i] = <<"task thread panicked">>})
                    = Cardinality(PanickedHandles(f))
              /\ Len(f.failures) = Cardinality(PanickedHandles(f) \cup FailedHandles(f))
              /\ PanickedHandles(f) # {} =>
                    /\ record.status = "failed"
                    /\ record.exit_code = 1
                    /\ f.appended =>
                          \E k \in 1..Len(history) : history[k] = record
                    \* the group returns the failure to its caller, unless its own
                    \* thread is the unit that panicked after the join
                    /\ (p[2] = 1 /\ owner.state = "done") =>
                          /\ ~owner.result.ok
                          /\ owner.unit \/ owner.result = runtime(JoinWith(f.failures, <<";">>))

\* `otto run a` for a parallel group of two: the first unit panicked, the second
\* ran to its end and succeeded, and the group has appended a Failed record whose
\* only failure is the panic and has returned a failure
C30_Witness ==
    /\ ParGroupFrame(MainCall)
    /\ Len(MainCall.handles) = 2
    /\ threads[MainCall.handles[1]].state = "panicked"
    /\ threads[MainCall.handles[2]].state = "done"
    /\ threads[MainCall.handles[2]].result.ok
    /\ threads[MainCall.handles[2]].frames[1].appended
    /\ Main.state = "done"
    /\ MainCall.failures = <<<<"task thread panicked">>>>
    /\ \E k \in 1..Len(history) :
          /\ history[k].name = MainCall.name
          /\ history[k].status = "failed"
          /\ history[k].stderr_tail = Some(<<"task thread panicked">>)
    /\ ~Main.result.ok

----------------------------------------------------------------------------
(* Properties of the call stack of run_named_task *)

\* every task of the config resolves, and the task run is one of them
AllTasksResolve ==
    /\ MainCall.name \in DOMAIN cfg.tasks
    /\ \A n \in DOMAIN cfg.tasks : resolve_task(cfg, n).ok

\* the stack as the calls of run_named_task that are active in thread t must
\* have left it: the stack the thread started with (empty for run_run, the
\* clone of the spawning group's stack for a unit), then the names of the frames
\* that have pushed theirs
StackRestored ==
    /\ (Main.state = "done") => Main.stack = <<>>
    /\ \A p \in FramePositions :
          LET th == threads[p[1]]
              f == th.frames[p[2]]
          IN \* between two calls of its children a group has its own name on top
             /\ (th.state = "running" /\ p[2] = Len(th.frames)
                    /\ f.pc \in {"group_seq", "group_spawn", "group_join", "group_append",
                                 "group_finish"})
                   => (th.stack # <<>> /\ th.stack[Len(th.stack)] = f.name)
             \* a unit that has returned leaves the clone it was given
             /\ (th.state = "running" /\ p[2] = Len(th.frames) /\ f.pc = "group_join")
                   => \A k \in 1..Len(f.handles) :
                         threads[f.handles[k]].state = "done"
                            => threads[f.handles[k]].stack = th.stack

\* C31: the call stack on return of run_named_task equals the call stack at
\* entry, on every exit path
C31_StackRestoredOnReturn == StackRestored

\* the same statement, for the runs in which every task resolves
C31_HoldsWhenAllTasksResolve == AllTasksResolve => StackRestored

----------------------------------------------------------------------------
(* Further properties of runner::execute, on the direct call of SpecRunner *)

\* C32: a backoff sleep happens only between a failed attempt and the next
\* attempt: none before the first attempt, none after a successful attempt, none
\* after the final failed attempt; a run whose r+1 attempts all fail sleeps
\* exactly r times, and a run with retries = 0 never sleeps
C32_SleepOnlyBetweenAttempts ==
    ValidReq1 =>
        LET slept == Len(F1.ex.sleeps) IN
        /\ F1.ex.made = 0 => slept = 0
        /\ slept <= F1.ex.failed
        /\ slept <= Req1.retries
        /\ F1.ex.made >= 1 => slept \in {F1.ex.made - 1, F1.ex.made}
        \* a sleep that no attempt has followed yet is followed by one
        /\ (F1.ex.made >= 1 /\ slept = F1.ex.made) => (~Done1 /\ F1.pc = "run_once")
        /\ (Done1 /\ T1.result.ok) => slept = F1.ex.made - 1
        /\ (Done1 /\ ~T1.result.ok) => slept = Req1.retries
        /\ Req1.retries = 0 => slept = 0

\* a run with retries = 3 has failed: four attempts were made and three sleeps
\* taken
C32_Witness ==
    /\ ValidReq1 /\ Req1.retries = 3
    /\ Done1 /\ ~T1.result.ok
    /\ F1.ex.made = 4
    /\ Len(F1.ex.sleeps) = 3

\* C33: the task's env map is expanded in sorted key order, each expanded value
\* entering the lookup before the next key: the value of B sees the expanded
\* value of A of the same map, and the value of A sees for B only what the
\* process environment or the dotenv file holds, else leaves ${B}
C33_TaskEnvInSortedKeyOrder ==
    Layered1 =>
        LET task_env == F1.rt.env
            additions == T1.frames[2].rt.env
            A == <<"A">>
            B == <<"B">>
        IN /\ (B \in DOMAIN task_env /\ task_env[B] = <<"$", "A">>) =>
                 additions[B] = IF A \in DOMAIN task_env THEN additions[A]
                                ELSE BaseValue(A)
           /\ (A \in DOMAIN task_env /\ task_env[A] = <<"$", "B">>) =>
                 additions[A] = BaseValue(B)
           \* a key never sees its own task value
           /\ (A \in DOMAIN task_env /\ task_env[A] = <<"$", "A">>) =>
                 additions[A] = BaseValue(A)
           /\ (B \in DOMAIN task_env /\ task_env[B] = <<"$", "B">>) =>
                 additions[B] = BaseValue(B)

\* the task's env is A = $B, B = $A with only B in the process environment: A
\* became the process value of B, and B became that expanded value of A
C33_Witness ==
    /\ Layered1
    /\ F1.rt.env = [k \in LayerKeys |-> IF k = <<"A">> THEN <<"$", "B">> ELSE <<"$", "A">>]
    /\ env.process = [k \in {<<"B">>} |-> <<"p">>]
    /\ env.dotenv = EmptyMap
    /\ T1.frames[2].rt.env = [k \in LayerKeys |-> <<"p">>]

\* the task's env is A = t, B = $A and nothing else sets A: B became t, not ${A}
SortedOrderSeesEarlierKey ==
    /\ Layered1
    /\ F1.rt.env = [k \in LayerKeys |-> IF k = <<"A">> THEN <<"t">> ELSE <<"$", "A">>]
    /\ env.process = EmptyMap /\ env.dotenv = EmptyMap
    /\ T1.frames[2].rt.env = [k \in LayerKeys |-> <<"t">>]

\* a result or record is Success exactly when its exit code is 0
StatusMatchesExit(r) ==
    /\ r.status \in {"success", "failed"}
    /\ (r.status = "success") <=> (r.exit_code = 0)

\* the exit codes a Failed leaf result can carry: the child's own non-zero code, 1
\* for a child without a code, 124, 127
FailedLeafCodes == ((ExitStatuses \ {0, Signalled}) \cup {ExitNoCode, ExitTimeout, ExitConfigOrSpawn})

\* the frame holds the result execute returned to execute_run
HoldsLeafResult(f) == f.pc \in {"execute_run_append", "execute_run_finish"}

\* C34: every result and record has status == Success iff exit_code == 0: a leaf
\* result is Ok only as Success with exit code 0, an Err result is Failed with the
\* child's non-zero code, 1 for a child without a code, 124 after a timeout or 127;
\* a group record has exit code 0 when Success and 1 when Failed
C34_SuccessIffExitCodeZero ==
    /\ \A k \in 1..Len(history) :
         /\ StatusMatchesExit(history[k])
         /\ history[k].name \in GroupTaskNames => history[k].exit_code \in {0, 1}
         /\ (history[k].name \notin GroupTaskNames /\ history[k].status = "failed") =>
               history[k].exit_code \in FailedLeafCodes
    /\ \A p \in FramePositions :
         LET f == threads[p[1]].frames[p[2]]
             r == f.exres
         IN HoldsLeafResult(f) =>
               /\ StatusMatchesExit(r.result)
               /\ r.ok <=> r.result.status = "success"
               /\ ~r.ok =>
                    /\ r.result.exit_code \in FailedLeafCodes
                    /\ f.ex.made = 0 => r.result.exit_code = ExitConfigOrSpawn
                    /\ f.ex.obs.kind = "timeout" => r.result.exit_code = ExitTimeout
                    /\ f.ex.obs.kind = "spawn_err" => r.result.exit_code = ExitConfigOrSpawn
                    /\ f.ex.obs.kind = "exit" =>
                         /\ f.ex.obs.status # 0
                         /\ r.result.exit_code = StatusCode(f.ex.obs.status)

\* a leaf whose child was ended by a signal has returned Failed with exit code 1,
\* and the record of an earlier failed run is in the history
C34_Witness ==
    /\ \E p \in FramePositions :
         LET f == threads[p[1]].frames[p[2]] IN
         /\ HoldsLeafResult(f)
         /\ f.ex.obs.kind = "exit" /\ f.ex.obs.status = Signalled
         /\ f.exres.result.status = "failed" /\ f.exres.result.exit_code = ExitNoCode
    /\ \E k \in 1..Len(history) : history[k].status = "failed"

\* a group record Failed with exit code 1 after the record of a leaf Failed with 7
GroupOneAfterLeafSeven ==
    \E k \in 1..Len(history) : \E j \in 1..(k - 1) :
        /\ history[k].name \in GroupTaskNames /\ history[k].exit_code = 1
        /\ history[j].name \notin GroupTaskNames /\ history[j].exit_code = 7

\* a leaf record Failed with 124, and one Failed with 127
LeafRecordTimedOut == \E k \in 1..Len(history) : history[k].exit_code = ExitTimeout
LeafRecordNotSpawned == \E k \in 1..Len(history) : history[k].exit_code = ExitConfigOrSpawn

----------------------------------------------------------------------------
(* Termination of a top-level run *)

\* one step of the OS thread t: the next statement of the call on top of its
\* frames, or the end of the wait for its child
ThreadStep(t) ==
    \/ ExecuteEnter(t) \/ SpawnFails(t) \/ SpawnChild(t) \/ ChildRuns(t)
    \/ ChildExits(t) \/ TimeoutExpires(t) \/ ChildExitsLate(t) \/ KillChild(t)
    \/ WaitKilled(t) \/ BackoffSleep(t) \/ ExecuteFails(t)
    \/ RunInline(t) \/ CycleDetected(t) \/ ResolveFails(t) \/ EnterLeaf(t)
    \/ GroupRejectsJson(t) \/ EnterGroup(t) \/ GroupSeqCall(t) \/ GroupSpawn(t)
    \/ GroupJoin(t) \/ GroupAppend(t) \/ GroupFinish(t) \/ LeafAppend(t)
    \/ LeafFinish(t)

\* The runs of Spec in which every OS thread that can take a step eventually takes
\* one (std::thread::scope threads are scheduled by the operating system) and in
\* which every child ends: a child runs for at most MaxChildTime ticks before it
\* exits or is killed.
SpecTerminating ==
    Init /\ [][Next]_vars /\ \A t \in ThreadIds : WF_vars(ThreadStep(t))

\* the names on every call stack are pairwise distinct, and no stack is longer
\* than the config has tasks
StackNamesDistinct ==
    \A t \in DOMAIN threads :
        LET stack == threads[t].stack IN
        /\ \A i, j \in 1..Len(stack) : i # j => stack[i] # stack[j]
        /\ stack # <<>> => Len(stack) <= Cardinality(DOMAIN cfg.tasks)

\* the top-level call has returned and no thread is left running
RunTerminated ==
    /\ Main.state = "done"
    /\ \A t \in DOMAIN threads : threads[t].state # "running"

\* C35: every call stack, the shared one and every copy of a parallel unit, holds
\* pairwise distinct names and is never longer than the number of tasks; and every
\* top-level run, on a cyclic config too, terminates when its children do
C35_StacksDistinctAndRunTerminates ==
    []StackNamesDistinct /\ <>[]RunTerminated

\* `otto run a` on the config a = [b], b = [a] has come back with the cycle error
\* after the stack held a and b
C35_Witness ==
    /\ RunsCycleFromA
    /\ Main.state = "done" /\ ~Main.result.ok
    /\ Contains(Main.result.msg, <<"a", "->", "b", "->", "a">>)

\* a stack of two names during the run of the cyclic config
CycleStackOfTwo ==
    RunsCycleFromA /\ \E t \in DOMAIN threads : Len(threads[t].stack) = 2

----------------------------------------------------------------------------
(* A task shared by two paths of an acyclic graph *)

\* `otto run a` without --json on the config where a has the sub-tasks [b, c] and
\* b and c both have the sub-task [d]
RunsDiamond ==
    /\ DOMAIN cfg.tasks = {"a", "b", "c", "d"}
    /\ MainCall.name = "a" /\ ~MainCall.json

\* how many records of the task `name` the history holds
RECURSIVE RecordsOf(_, _)
RecordsOf(name, k) ==
    IF k = 0 THEN 0
    ELSE RecordsOf(name, k - 1) + (IF history[k].name = name THEN 1 ELSE 0)

CycleWords == <<"task dependency cycle:">>

\* some result, collected failure or record reports a dependency cycle
CycleMentioned ==
    \/ \E t \in DOMAIN threads : Contains(threads[t].result.msg, CycleWords)
    \/ \E p \in FramePositions :
         LET f == threads[p[1]].frames[p[2]] IN
         \E i \in 1..Len(f.failures) : Contains(f.failures[i], CycleWords)
    \/ \E k \in 1..Len(history) :
         history[k].stderr_tail.some /\ Contains(history[k].stderr_tail.val, CycleWords)

\* the task `to` is reached from `from` by at most `steps` sub-task references
RECURSIVE Reaches(_, _, _)
Reaches(from, to, steps) ==
    /\ steps > 0
    /\ from \in DOMAIN cfg.tasks
    /\ \E i \in 1..Len(cfg.tasks[from].tasks) :
          LET child == cfg.tasks[from].tasks[i] IN
          child = to \/ Reaches(child, to, steps - 1)

\* the task is among its own ancestors in the graph of sub-task references
OwnAncestor(n) == Reaches(n, n, Cardinality(DOMAIN cfg.tasks))

\* C36: a cycle is reported only on a config where a task is its own ancestor;
\* on the diamond a = [b, c], b = [d], c = [d], sequential or parallel at
\* every level, no cycle is ever reported, and d is executed once for each of the
\* paths through b and through c that were executed: once the run has ended the
\* history holds as many records of d as of b and c together
C36_SharedTaskIsNoCycle ==
    /\ CycleMentioned => \E n \in DOMAIN cfg.tasks : OwnAncestor(n)
    /\ RunsDiamond =>
        /\ ~CycleMentioned
        /\ RecordsOf("d", Len(history)) <= 2
        /\ RecordsOf("b", Len(history)) <= 1 /\ RecordsOf("c", Len(history)) <= 1
        /\ RecordsOf("b", Len(history)) + RecordsOf("c", Len(history))
              <= RecordsOf("d", Len(history))
        /\ Main.state = "done" =>
              /\ RecordsOf("d", Len(history)) =
                    RecordsOf("b", Len(history)) + RecordsOf("c", Len(history))
              /\ RecordsOf("b", Len(history)) = 1
              /\ (Main.result.ok \/ cfg.tasks["a"].parallel) =>
                    RecordsOf("d", Len(history)) = 2

\* the all-sequential diamond has ended in success after d ran twice
C36_Witness ==
    /\ RunsDiamond
    /\ \A n \in {"a", "b", "c"} : ~cfg.tasks[n].parallel
    /\ Main.state = "done" /\ Main.result.ok
    /\ RecordsOf("d", Len(history)) = 2

\* the all-parallel diamond has ended in success after d ran in two unit threads
ParallelDiamondDone ==
    /\ RunsDiamond
    /\ \A n \in {"a", "b", "c"} : cfg.tasks[n].parallel
    /\ Main.state = "done" /\ Main.result.ok
    /\ RecordsOf("d", Len(history)) = 2
    /\ Len(threads) = MaxThreads

----------------------------------------------------------------------------
(* The failure message of a parallel group *)

\* the positions in the sub-task list whose units failed
FailedUnits(f) == {k \in 1..Len(f.handles) : ~threads[f.handles[k]].result.ok}

\* the i-th smallest position among them
NthFailed(f, i) ==
    CHOOSE k \in FailedUnits(f) : Cardinality({j \in FailedUnits(f) : j < k}) = i - 1

\* the position of the first record of `name` in the history, 0 when there is none
FirstRecordOf(name) ==
    IF \E k \in 1..Len(history) : history[k].name = name
    THEN CHOOSE k \in 1..Len(history) :
            history[k].name = name /\ \A j \in 1..(k - 1) : history[j].name # name
    ELSE 0

\* `otto run a` on the config where a is the group [b, c] of two leaves
RunsPairOfLeaves ==
    /\ DOMAIN cfg.tasks = {"a", "b", "c"}
    /\ cfg.tasks["a"].tasks = <<"b", "c">>
    /\ cfg.tasks["c"].tasks = <<>>
    /\ MainCall.name = "a"

\* C37: past the join loop the failures of a parallel group are the messages of
\* its failed units in sub-task list order, each starting with the sub-task's
\* name, whatever the order in which the units ended (the order of their records
\* in the history); the group's record carries them joined with "; " as its stderr
\* tail and the group's error carries the same text
C37_ParallelFailuresInListOrder ==
    \A p \in FramePositions :
        LET f == threads[p[1]].frames[p[2]] IN
        (ParGroupFrame(f) /\ Aggregating(f)) =>
            /\ Len(f.failures) = Cardinality(FailedUnits(f))
            /\ \A i \in 1..Len(f.failures) :
                  /\ f.failures[i] = threads[f.handles[NthFailed(f, i)]].result.msg
                  /\ f.failures[i][1] = f.rt.sub_tasks[NthFailed(f, i)]
            /\ (f.appended /\ f.failures # <<>>) =>
                  \E k \in 1..Len(history) :
                     /\ history[k].name = f.name
                     /\ history[k].stderr_tail = Some(JoinWith(f.failures, <<";">>))
            /\ (p[2] = 1 /\ threads[p[1]].state = "done" /\ ~threads[p[1]].unit
                  /\ f.failures # <<>>) =>
                  threads[p[1]].result.msg = JoinWith(f.failures, <<";">>)

\* both units of the parallel group a = [b, c] failed, c ended before b (its
\* record is the earlier one), and the message of a names b before c
C37_Witness ==
    /\ RunsPairOfLeaves
    /\ ParGroupFrame(MainCall) /\ Main.state = "done"
    /\ Len(MainCall.failures) = 2
    /\ FirstRecordOf("c") > 0 /\ FirstRecordOf("c") < FirstRecordOf("b")
    /\ MainCall.failures[1][1] = "b" /\ MainCall.failures[2][1] = "c"
    /\ Main.result.msg = JoinWith(MainCall.failures, <<";">>)

\* the same with b ended before c: the same failures in the same order
BothFailedInListOrder ==
    /\ RunsPairOfLeaves
    /\ ParGroupFrame(MainCall) /\ Main.state = "done"
    /\ Len(MainCall.failures) = 2
    /\ FirstRecordOf("b") > 0 /\ FirstRecordOf("b") < FirstRecordOf("c")
    /\ MainCall.failures[1][1] = "b" /\ MainCall.failures[2][1] = "c"

----------------------------------------------------------------------------
(* Runs in which the history store can fail *)

\* Store::append returns Err: the directory or the file could not be created or
\* opened, or one of the two writes failed
AppendError == <<"write history record">>

\* what the history holds after a failed append of `record`: nothing new, or,
\* when only the write of the line end failed, the line of the record
AfterFailedAppend(record) == {history, Append(history, record)}

\* execute_run: store.append(&record) fails and `?` returns the internal error;
\* run_named_task pops
LeafAppendFails(t) ==
    /\ At(t, "execute_run_append")
    /\ history' \in AfterFailedAppend(LeafRecord(Fr(t).rt, Fr(t).exres.result))
    /\ threads' = Return(t, internal(AppendError), Pop(threads[t].stack))
    /\ UNCHANGED <<env, cfg, notified, spawned>>

\* execute_task_group: store.append(&record) fails and `?` returns the internal
\* error; run_named_task pops
GroupAppendFails(t) ==
    /\ At(t, "group_append")
    /\ history' \in AfterFailedAppend(GroupRecord(Fr(t).rt, Fr(t).failures))
    /\ threads' = Return(t, internal(AppendError), Pop(threads[t].stack))
    /\ UNCHANGED <<env, cfg, notified, spawned>>

\* `otto run a`, not as JSON, on the config of the one leaf a or of the group
\* a = [b, c] of two leaves, and the inline runs
InitStoreFaults ==
    /\ Init
    /\ DOMAIN cfg.tasks \in {{}, {"a"}, {"a", "b", "c"}}
    /\ DOMAIN cfg.tasks = {"a", "b", "c"} =>
          /\ cfg.tasks["c"].tasks = <<>>
          /\ MainCall.name = "a" /\ ~MainCall.json
    /\ DOMAIN cfg.tasks = {"a"} => MainCall.name = "a"

NextStoreFaults ==
    \/ NextRunner
    \/ \E t \in ThreadIds : RunInline(t)
    \/ \E t \in ThreadIds : EnterLeaf(t)
    \/ \E t \in ThreadIds : EnterGroup(t)
    \/ \E t \in ThreadIds : GroupSeqCall(t)
    \/ \E t \in ThreadIds : GroupSpawn(t)
    \/ \E t \in ThreadIds : GroupJoin(t)
    \/ \E t \in ThreadIds : GroupAppend(t)
    \/ \E t \in ThreadIds : GroupAppendFails(t)
    \/ \E t \in ThreadIds : GroupFinish(t)
    \/ \E t \in ThreadIds : LeafAppend(t)
    \/ \E t \in ThreadIds : LeafAppendFails(t)
    \/ \E t \in ThreadIds : LeafFinish(t)

SpecStoreFaults == InitStoreFaults /\ [][NextStoreFaults]_vars

\* the top-level invocation came to the point where its record is appended: its
\* leaf was executed, or its group ran its sub-tasks
TopExecuted ==
    \/ MainCall.ex.made > 0
    \/ ~MainCall.exres.ok
    \/ MainCall.called # <<>>

\* the top-level invocation has returned without its record appended although
\* it came to the append: store.append failed
TopAppendFailed == Main.state = "done" /\ TopExecuted /\ ~MainCall.appended

\* C38: a notification for the top-level run is emitted only after its record was
\* appended; when the append fails, no notification for the run is ever emitted
\* and the call returns the internal error (exit class 3) whether the run itself
\* succeeded or failed; and only a failed append gives that error
C38_AppendBeforeNotification ==
    /\ TopNotified => MainCall.appended /\ OwnRecords # {}
    /\ TopAppendFailed =>
          /\ ~TopNotified
          /\ Main.result = internal(AppendError)
          /\ Main.result.code = 3
    /\ (Main.state = "done" /\ ~Main.result.ok /\ Main.result.code = ExitInternal) =>
          TopAppendFailed
    /\ (Main.state = "done" /\ MainCall.appended) =>
          Main.result.ok \/ Main.result.code = ExitRuntime

\* a leaf run under the policy "always" succeeded, the append of its record
\* failed: no notification, internal error
C38_Witness ==
    /\ TopAppendFailed
    /\ MainCall.called = <<>> /\ MainCall.exres.ok /\ MainCall.ex.made > 0
    /\ MainCall.rt.notify_on = "always"
    /\ notified = <<>>
    /\ Main.result.code = ExitInternal

\* a failed leaf run and a failed group run whose appends failed
FailedRunAppendFailed ==
    TopAppendFailed /\ ~MainCall.exres.ok /\ MainCall.rt.notify_on = "failure"

FailedGroupAppendFailed ==
    TopAppendFailed /\ MainCall.failures # <<>> /\ notified = <<>>

----------------------------------------------------------------------------
(* Text outside the references *)

\* apply_runtime_env has returned for a command of one text: a shell text, or the
\* exec token after p
ExpandedText1 == Applied1 /\ Len(F1.rt.exec) < 3

\* C39: a text without '$' comes out of expand_variables unchanged, whatever the
\* lookup and also when it holds characters outside ASCII
C39_TextWithoutDollarUnchanged ==
    (ExpandedText1 /\ HasNo(TextBefore, "$")) => TextAfter = TextBefore

\* the same statement, for the texts whose characters are all ASCII
C39_HoldsForAsciiText ==
    (ExpandedText1 /\ HasNo(TextBefore, "$") /\ HasNo(TextBefore, "é"))
        => TextAfter = TextBefore

\* the shell text é has been expanded: it came out as the two characters Ã©
AccentMangled ==
    /\ ExpandedText1
    /\ F1.rt.use_shell
    /\ TextBefore = <<"é">>
    /\ TextAfter = <<"Ã", "©">>

\* the text é$N with N = v came out as Ã©v: the reference is replaced, the
\* character before it is not kept
AccentBeforeReferenceMangled ==
    /\ ExpandedText1
    /\ TextBefore = <<"é", "$", "N">>
    /\ env.process = [k \in {<<"N">>} |-> <<"v">>]
    /\ TextAfter = <<"Ã", "©", "v">>

\* the reference ${é} to a name that is not set came out as it was: the name of
\* a reference is taken as a slice of the text
AccentedNameKept ==
    /\ ExpandedText1
    /\ TextBefore = <<"$", "{", "é", "}">>
    /\ TextAfter = <<"$", "{", "é", "}">>

----------------------------------------------------------------------------
(* `otto run a` from the loading of the config on *)

\* load_config_classified in run_run: a config with validation issues ends the
\* command with a usage error, a valid one is handed to run_named_task
LoadForRun(t) ==
    /\ At(t, "load_config")
    /\ threads' =
         IF validate(cfg)
         THEN WithTop(t, [Fr(t) EXCEPT !.pc = "run_named_task"])
         ELSE [threads EXCEPT ![t] = [@ EXCEPT !.state = "done",
                  !.result = usage(<<"configuration validation failed">>)]]
    /\ UNCHANGED <<env, cfg, history, notified, spawned>>

\* the config file holds any of the task graphs, valid or not
InitLoaded ==
    /\ \E shape \in Shapes, par \in [{"a", "b", "c", "d"} -> BOOLEAN] :
          cfg = ConfigOf(shape, par, "")
    /\ threads = <<Thread(<<Frame("a", "load_config", FALSE, FALSE, TRUE, <<>>)>>,
                          <<>>, FALSE, "")>>
    /\ history = <<>>
    /\ notified = <<>>
    /\ spawned = 0
    /\ env = NoEnv

NextLoaded ==
    \/ \E t \in ThreadIds : LoadForRun(t)
    \/ \E t \in ThreadIds : CycleDetected(t)
    \/ \E t \in ThreadIds : EnterLeaf(t)
    \/ \E t \in ThreadIds : EnterGroup(t)
    \/ \E t \in ThreadIds : GroupSeqCall(t)
    \/ \E t \in ThreadIds : GroupSpawn(t)
    \/ \E t \in ThreadIds : GroupJoin(t)
    \/ \E t \in ThreadIds : GroupAppend(t)
    \/ \E t \in ThreadIds : GroupFinish(t)
    \/ \E t \in ThreadIds : ExecuteEnter(t)
    \/ \E t \in ThreadIds : SpawnFails(t)
    \/ \E t \in ThreadIds : SpawnChild(t)
    \/ \E t \in ThreadIds : ChildRuns(t)
    \/ \E t \in ThreadIds : ChildExits(t)
    \/ \E t \in ThreadIds : ExecuteFails(t)
    \/ \E t \in ThreadIds : LeafAppend(t)
    \/ \E t \in ThreadIds : LeafFinish(t)

SpecLoaded == InitLoaded /\ [][NextLoaded]_vars

\* some task of the config lists a name that is no task of the config
ListsUnknown ==
    \E n \in DOMAIN cfg.tasks : \E i \in 1..Len(cfg.tasks[n].tasks) :
        cfg.tasks[n].tasks[i] \notin DOMAIN cfg.tasks

\* some task of the config lists itself
ListsItself ==
    \E n \in DOMAIN cfg.tasks : \E i \in 1..Len(cfg.tasks[n].tasks) :
        cfg.tasks[n].tasks[i] = n

\* the loading is over
Loaded == MainCall.pc # "load_config" \/ Main.state = "done"

\* the command ended at the loading, with the validation error
RejectedByValidate ==
    /\ Main.state = "done" /\ MainCall.pc = "load_config"
    /\ Main.result = usage(<<"configuration validation failed">>)

\* C40: validate rejects a config in which a task lists an unknown name or
\* itself, and nothing runs; it accepts every other task graph, the cyclic ones
\* of length two or more too (a = [b], b = [a]; a = [b, c], c = [a]), and on
\* those the cycle is found only at run time, by the call stack
C40_ValidateAcceptsLongerCycles ==
    /\ (Loaded /\ (ListsUnknown \/ ListsItself)) =>
          /\ RejectedByValidate
          /\ spawned = 0 /\ history = <<>> /\ Len(threads) = 1
    /\ (Loaded /\ ~ListsUnknown /\ ~ListsItself) => ~RejectedByValidate
    /\ (Loaded /\ CycleConfig) =>
          /\ ~RejectedByValidate
          /\ Main.state = "done" => CycleReported
    /\ CycleMentioned =>
          /\ \E n \in DOMAIN cfg.tasks : OwnAncestor(n)
          /\ ~ListsItself /\ ~ListsUnknown
          /\ ~RejectedByValidate

\* the config a = [b], b = [a] was loaded without an issue, a and b were entered,
\* and the run has ended with the cycle error of the call stack
C40_Witness ==
    /\ CycleConfig
    /\ Main.state = "done" /\ ~RejectedByValidate
    /\ CycleReported
    /\ Contains(Main.result.msg, <<"a", "->", "b", "->", "a">>)

\* the configs a = [a, b] and a = [b, zz] were rejected at the loading
SelfReferenceRejected == RejectedByValidate /\ ListsItself
UnknownNameRejected == RejectedByValidate /\ ListsUnknown

\* the longer cycle a = [b, c], c = [a] was accepted and found at run time
LongerCycleFoundAtRunTime ==
    /\ DOMAIN cfg.tasks = {"a", "b", "c"} /\ cfg.tasks["c"].tasks = <<"a">>
    /\ ~RejectedByValidate /\ CycleMentioned

====
